---- MODULE Spec2Model ----
(***************************************************************************)
(* A model of the declarative SQLite schema migrator (src/src/migrator.ts). *)
(*                                                                         *)
(* The caller hands migrate() a live database and a target schema script.  *)
(* The engine materialises the script in a private in-memory "pristine"    *)
(* database, opens one write transaction on the live database, diffs the   *)
(* two catalogs, applies the difference, commits, and finally reconciles   *)
(* the foreign_keys pragma and runs VACUUM outside the transaction.        *)
(*                                                                         *)
(* The database engine is modelled by its catalog: tables (definition and  *)
(* rows), indices, triggers and views (definition), and user_version.  A   *)
(* transaction works on a copy of the catalog (txdb) that replaces the     *)
(* committed one (live) on commit and is discarded on rollback or close.   *)
(* foreign_keys and defer_foreign_keys are settings of the connection and  *)
(* are not restored by a rollback.                                         *)
(*                                                                         *)
(* A definition kept by a catalog is a record of the identifiers it spells  *)
(* (name, quoting of the name, column list, target table, body) and of its *)
(* layout (fmt).  Where the migrator works on the characters of SQL text   *)
(* (normaliseSql, escapeIdentifier, the rename by regular expression) the  *)
(* record is rendered into its text, a sequence of tokens, and the         *)
(* database engine reads the text back.                                    *)
(***************************************************************************)
EXTENDS Integers, Sequences, FiniteSets, TLC

VARIABLES
    live,             \* the committed content of the live database
    txdb,             \* the content as seen inside the write transaction
    txStatus,         \* "none" | "open" | "committed" | "rolledback"
    txClosed,         \* Transaction.close() has been called
    foreign_keys,     \* PRAGMA foreign_keys of the live connection (0 | 1)
    defer_foreign_keys, \* PRAGMA defer_foreign_keys of the transaction
    schema,           \* Migrator.schema: the target script, a sequence of statements
    allowDeletions,   \* Migrator.allowDeletions
    pristine,         \* the in-memory database built from the script
    pristineForeignKeys, \* PRAGMA foreign_keys of the pristine connection
    pristineClosed,   \* pristine.close() has been called
    transaction,      \* Migrator.transaction is set (not null)
    origForeignKeys,  \* Migrator.origForeignKeys (-1 stands for null)
    nChanges,         \* Migrator.nChanges
    tables,           \* performMigration's snapshot of the live tables
    todo,             \* modified tables not rebuilt yet
    pc,               \* position of the call inside migrate()
    success,          \* the local flag of Migrator.migrate
    error,            \* the error being propagated ("" for none)
    result,           \* what the call returned: "none" | "true" | "false" | "error"
    log,              \* history: the statements the live database has executed
    call,             \* "first" | "second": which migrate call is running
    db0,              \* history: committed content when the call began
    fk0,              \* history: foreign_keys when the call began
    fkRows,           \* rows PRAGMA foreign_key_check reports on the migrated data
    faulted,          \* history: the database engine raised an I/O error in this call
    peer,             \* a second Migrator running beside this one: its fields while
                      \* it waits at a database call, and the history of the pair
    norm              \* a call of normaliseSql: its argument, the step it is at
                      \* and the text it has made of the argument so far

vars == << live, txdb, txStatus, txClosed, foreign_keys, defer_foreign_keys,
           schema, allowDeletions, pristine, pristineForeignKeys, pristineClosed,
           transaction, origForeignKeys, nChanges, tables, todo, pc, success,
           error, result, log, call, db0, fk0, fkRows, faulted, peer, norm >>

----------------------------------------------------------------------------
(* Bounds of the model *)

\* rows held by every table of the initial live database
MaxRows == 1
\* user_version values range over 0..MaxVersion
MaxVersion == 1

----------------------------------------------------------------------------
(* Values *)

SQLITE_SEQUENCE == "sqlite_sequence"

Null == <<>>

\* the value stored in column c of the k-th row of an initial table
Cell(k, c) == << k, c >>

EmptyMap == [n \in {} |-> 0]

EmptyDb ==
    [tables |-> EmptyMap, indices |-> EmptyMap, triggers |-> EmptyMap,
     views |-> EmptyMap, user_version |-> 0]

Put(m, k, v) == [n \in DOMAIN m \cup {k} |-> IF n = k THEN v ELSE m[n]]

Del(m, ks) == [n \in DOMAIN m \ ks |-> m[n]]

Range(s) == {s[i] : i \in DOMAIN s}

RECURSIVE SetToSeq(_)
SetToSeq(S) ==
    IF S = {} THEN << >>
    ELSE LET x == CHOOSE y \in S : TRUE IN << x >> \o SetToSeq(S \ {x})

----------------------------------------------------------------------------
(* SQL text *)

\* CREATE TABLE <name> (<cols>)
TableSql(name, cols) ==
    [kind |-> "table", name |-> name, quoted |-> FALSE, cols |-> cols, fmt |-> "plain"]

\* CREATE [UNIQUE] INDEX <name> ON <tbl> (<col>)
IndexSql(name, tbl, col, uniq) ==
    [kind |-> "index", name |-> name, tbl |-> tbl, col |-> col, uniq |-> uniq,
     fmt |-> "plain"]

\* CREATE TRIGGER <name> ... ON <tbl> BEGIN <body> END
TriggerSql(name, tbl, body) ==
    [kind |-> "trigger", name |-> name, tbl |-> tbl, body |-> body, fmt |-> "plain"]

\* CREATE VIEW <name> AS <body>
ViewSql(name, body) ==
    [kind |-> "view", name |-> name, body |-> body, fmt |-> "plain"]

\* the table a view's SELECT reads
ViewReads(sql) == "t"

Stmt(op, kind, name, arg) == [op |-> op, kind |-> kind, name |-> name, arg |-> arg]

Create(sql) == Stmt("CREATE", sql.kind, sql.name, sql)

\* a run of blanks and newlines in a script
Whitespace == Stmt("", "whitespace", "", 0)

\* schema.trim(): the script without its leading and trailing whitespace
RECURSIVE Trim(_)
Trim(stmts) ==
    IF Len(stmts) = 0 THEN stmts
    ELSE IF Head(stmts).kind = "whitespace" THEN Trim(Tail(stmts))
    ELSE IF stmts[Len(stmts)].kind = "whitespace"
         THEN Trim(SubSeq(stmts, 1, Len(stmts) - 1))
    ELSE stmts

\* keywords are matched in any letter case (the regex flag i, and the engine)
Fold(keyword) ==
    CASE keyword \in {"attach database", "Attach Database"} -> "ATTACH DATABASE"
      [] keyword \in {"detach database", "Detach Database"} -> "DETACH DATABASE"
      [] keyword \in {"pragma", "Pragma"} -> "PRAGMA"
      [] OTHER -> keyword

SAFE_PRAGMAS ==
    {"foreign_keys", "user_version", "defer_foreign_keys", "foreign_key_check", "table_info"}

\* the negative lookahead (?!foreign_keys|user_version|...) of the pragma
\* pattern: it looks at the start of the name only, so it also holds back on
\* a longer name that begins with a listed one
StartsWithSafePragma(name) ==
    \/ name \in SAFE_PRAGMAS
    \/ name \in {"foreign_keys_legacy", "user_version_backup"}

\* the \w+ the pragma pattern wants after the blanks: the text that follows
\* the keyword starts with a word character, which a quoted name does not
StartsWithWord(name) == name \notin {"\"journal_mode\""}

\* the pragma the engine reads from the text that follows the keyword
PragmaName(name) == IF name = "\"journal_mode\"" THEN "journal_mode" ELSE name

\* the case folding of the regex flag i
Lower(id) ==
    CASE id = "T" -> "t"
      [] id = "U" -> "u"
      [] OTHER -> id


----------------------------------------------------------------------------
(* SQL text, character by character.  A text is a sequence of tokens: a    *)
(* token is one character, except that a run of letters, digits and        *)
(* underscores is written as one token, a word.                            *)

Quote == "\""

Punctuation ==
    {Quote, "-", "@", "#", " ", "\t", "\n", "(", ")", ",", ".", "*", "+", "?",
     "^", "$", "{", "}", "|", "[", "]", "\\", ";"}

\* the regex class \w
IsWord(tok) == tok \notin Punctuation

\* the regex class \s
IsSpace(tok) == tok \in {" ", "\t", "\n"}

\* the string a text spells
RECURSIVE Join(_)
Join(text) == IF text = << >> THEN "" ELSE Head(text) \o Join(Tail(text))

\* how many tokens at the start of text are in the class (inside = TRUE) or
\* out of it (inside = FALSE)
RECURSIVE Leading(_, _, _)
Leading(text, class, inside) ==
    IF text = << >> THEN 0
    ELSE IF (Head(text) \in class) = inside THEN 1 + Leading(Tail(text), class, inside)
    ELSE 0

From(text, i) == SubSeq(text, i, Len(text))

\* identifier.replace(/"/g, '""'): every " of the identifier is written twice
RECURSIVE DoubleQuotes(_)
DoubleQuotes(identifier) ==
    IF identifier = << >> THEN << >>
    ELSE (IF Head(identifier) = Quote THEN << Quote, Quote >> ELSE << Head(identifier) >>)
            \o DoubleQuotes(Tail(identifier))

escapeIdentifier(identifier) == << Quote >> \o DoubleQuotes(identifier) \o << Quote >>

\* value.replace(/[.*+?^${}()|[\]\\]/g, "\\$&")
RECURSIVE escapeRegex(_)
escapeRegex(value) ==
    IF value = << >> THEN << >>
    ELSE (IF Head(value) \in {".", "*", "+", "?", "^", "$", "{", "}", "(", ")", "|", "[", "]", "\\"}
          THEN << "\\", Head(value) >> ELSE << Head(value) >>)
            \o escapeRegex(Tail(value))

\* .replace(/--[^\n]*\n/g, ""): two dashes, what follows them on the line,
\* and the newline that ends the line
RECURSIVE RemoveComments(_)
RemoveComments(text) ==
    IF text = << >> THEN text
    ELSE LET line == Leading(From(text, 3), {"\n"}, FALSE)
         IN  IF /\ Len(text) >= 3
                /\ text[1] = "-" /\ text[2] = "-"
                /\ 2 + line < Len(text)
             THEN RemoveComments(From(text, 2 + line + 2))
             ELSE << Head(text) >> \o RemoveComments(Tail(text))

\* .replace(/\s+/g, " ")
RECURSIVE CollapseWhitespace(_)
CollapseWhitespace(text) ==
    IF text = << >> THEN text
    ELSE LET run == Leading(text, {" ", "\t", "\n"}, TRUE)
         IN  IF run > 0
             THEN << " " >> \o CollapseWhitespace(From(text, run + 1))
             ELSE << Head(text) >> \o CollapseWhitespace(Tail(text))

\* .replace(/ *([(),]) */g, "$1")
RECURSIVE TightenDelimiters(_)
TightenDelimiters(text) ==
    IF text = << >> THEN text
    ELSE LET before == Leading(text, {" "}, TRUE)
         IN  IF before < Len(text) /\ text[before + 1] \in {"(", ")", ","}
             THEN LET rest == From(text, before + 2)
                  IN  << text[before + 1] >>
                        \o TightenDelimiters(From(rest, Leading(rest, {" "}, TRUE) + 1))
             ELSE << Head(text) >> \o TightenDelimiters(Tail(text))

\* .replace(/"(\w+)"/g, "$1")
RECURSIVE StripQuotes(_)
StripQuotes(text) ==
    IF text = << >> THEN text
    ELSE LET word == Leading(Tail(text), Punctuation, FALSE)
         IN  IF /\ Head(text) = Quote
                /\ word > 0
                /\ word + 2 <= Len(text)
                /\ text[word + 2] = Quote
             THEN SubSeq(text, 2, word + 1) \o StripQuotes(From(text, word + 3))
             ELSE << Head(text) >> \o StripQuotes(Tail(text))

\* .trim()
RECURSIVE TrimText(_)
TrimText(text) ==
    IF text = << >> THEN text
    ELSE IF IsSpace(Head(text)) THEN TrimText(Tail(text))
    ELSE IF IsSpace(text[Len(text)]) THEN TrimText(SubSeq(text, 1, Len(text) - 1))
    ELSE text

normaliseSql(sql) ==
    TrimText(StripQuotes(TightenDelimiters(CollapseWhitespace(RemoveComments(sql)))))

MigrationNew(tblName) == tblName \o "_migration_new"

\* the characters of the names that are more than one word
Spelling ==
    LET special ==
            ("my-table" :> << "my", "-", "table" >>)
            @@ ("user name" :> << "user", " ", "name" >>)
            @@ ("email@address" :> << "email", "@", "address" >>)
            @@ ("phone#number" :> << "phone", "#", "number" >>)
            @@ ("a\"b" :> << "a", Quote, "b" >>)
            @@ ("t#" :> << "t", "#" >>)
            @@ ("t-x" :> << "t", "-", "x" >>)
        derived == {MigrationNew(n) : n \in DOMAIN special}
    IN  [n \in DOMAIN special \cup derived |->
            IF n \in DOMAIN special THEN special[n]
            ELSE LET base == CHOOSE b \in DOMAIN special : MigrationNew(b) = n
                 IN  special[base] \o << "_migration_new" >>]

\* the characters of a name
Spell(name) == IF name \in DOMAIN Spelling THEN Spelling[name] ELSE << name >>

\* a name made of word characters only (the regex class \w)
WordChars(id) == \A tok \in Range(Spell(id)) : IsWord(tok)

\* a name as a definition writes it: in double quotes where the definition
\* quotes it or the name could not stand bare
Spelled(name, quoted) ==
    IF quoted \/ ~WordChars(name) THEN escapeIdentifier(Spell(name)) ELSE Spell(name)

RECURSIVE Separated(_, _)
Separated(texts, separator) ==
    IF Len(texts) = 0 THEN << >>
    ELSE IF Len(texts) = 1 THEN Head(texts)
    ELSE Head(texts) \o separator \o Separated(Tail(texts), separator)

\* the text of a definition, as sqlite_master keeps it: what the CREATE
\* statement said, on one line (fmt "plain") or over several (fmt "lines")
Render(sql) ==
    LET lines == sql.fmt = "lines"
        open == IF lines THEN << " ", "(", "\n", " ", " " >> ELSE << "(" >>
        close == IF lines THEN << "\n", ")" >> ELSE << ")" >>
        comma == IF lines THEN << ",", "\n", " ", " " >> ELSE << ",", " " >>
        gap == IF lines THEN << "\n", " ", " " >> ELSE << " " >>
    IN  CASE sql.kind = "table" ->
                << "CREATE", " ", "TABLE", " " >> \o Spelled(sql.name, sql.quoted) \o open
                    \o Separated([i \in DOMAIN sql.cols |-> Spelled(sql.cols[i], FALSE)], comma)
                    \o close
          [] sql.kind = "index" ->
                << "CREATE", " " >> \o (IF sql.uniq THEN << "UNIQUE", " " >> ELSE << >>)
                    \o << "INDEX", " " >> \o Spelled(sql.name, FALSE) \o gap
                    \o << "ON", " " >> \o Spelled(sql.tbl, FALSE)
                    \o open \o Spelled(sql.col, FALSE) \o close
          [] sql.kind = "trigger" ->
                << "CREATE", " ", "TRIGGER", " " >> \o Spelled(sql.name, FALSE) \o gap
                    \o << "AFTER", " ", "INSERT", " ", "ON", " " >> \o Spelled(sql.tbl, FALSE)
                    \o gap \o << "BEGIN", " ", sql.body, ";", " ", "END" >>
          [] sql.kind = "view" ->
                << "CREATE", " ", "VIEW", " " >> \o Spelled(sql.name, FALSE) \o gap
                    \o << "AS", " ", sql.body >>

\* the end of a quoted identifier: the position in text of the first double
\* quote that is not the first of a pair, or 0
RECURSIVE ClosingQuote(_)
ClosingQuote(text) ==
    IF text = << >> THEN 0
    ELSE LET pair == Head(text) = Quote /\ Len(text) >= 2 /\ text[2] = Quote
             skip == IF pair THEN 2 ELSE 1
             r == ClosingQuote(From(text, skip + 1))
         IN  IF Head(text) = Quote /\ ~pair THEN 1
             ELSE IF r = 0 THEN 0 ELSE r + skip

RECURSIVE HalveQuotes(_)
HalveQuotes(text) ==
    IF text = << >> THEN << >>
    ELSE IF Head(text) = Quote /\ Len(text) >= 2 /\ text[2] = Quote
         THEN << Quote >> \o HalveQuotes(From(text, 3))
    ELSE << Head(text) >> \o HalveQuotes(Tail(text))

NoIdentifier == [ok |-> FALSE, name |-> "", quoted |-> FALSE, rest |-> << >>]

\* the identifier the database engine reads at the start of text: a quoted
\* one runs to its closing quote and "" inside it stands for one quote, a
\* bare one is a run of word characters
ReadIdentifier(text) ==
    IF text = << >> THEN NoIdentifier
    ELSE IF Head(text) = Quote
    THEN LET end == ClosingQuote(Tail(text))
         IN  IF end = 0 THEN NoIdentifier
             ELSE [ok |-> TRUE, name |-> Join(HalveQuotes(SubSeq(text, 2, end))),
                   quoted |-> TRUE, rest |-> From(text, end + 2)]
    ELSE LET run == Leading(text, Punctuation, FALSE)
         IN  IF run = 0 THEN NoIdentifier
             ELSE [ok |-> TRUE, name |-> Join(SubSeq(text, 1, run)),
                   quoted |-> FALSE, rest |-> From(text, run + 1)]

\* the name a statement's identifier text stands for
Identifier(text) == ReadIdentifier(text).name

SkipSpace(text) == From(text, Leading(text, {" ", "\t", "\n"}, TRUE) + 1)

\* the column list of a CREATE TABLE, from behind its opening parenthesis
RECURSIVE ReadColumns(_)
ReadColumns(text) ==
    LET id == ReadIdentifier(SkipSpace(text))
        after == SkipSpace(id.rest)
        more == ReadColumns(Tail(after))
    IN  IF ~id.ok \/ after = << >> THEN [ok |-> FALSE, cols |-> << >>]
        ELSE IF Head(after) = ")"
             THEN [ok |-> SkipSpace(Tail(after)) = << >>, cols |-> << id.name >>]
        ELSE IF Head(after) = ","
             THEN [ok |-> more.ok, cols |-> << id.name >> \o more.cols]
        ELSE [ok |-> FALSE, cols |-> << >>]

Unparsed == [kind |-> "syntax error", name |-> ""]

\* the table the database engine reads from the text of a CREATE TABLE
ParseCreateTable(text) ==
    LET id == ReadIdentifier(From(text, 5))
        after == SkipSpace(id.rest)
        cols == ReadColumns(Tail(after))
    IN  IF /\ Len(text) >= 5
           /\ SubSeq(text, 1, 4) = << "CREATE", " ", "TABLE", " " >>
           /\ id.ok
           /\ after # << >>
           /\ Head(after) = "("
           /\ cols.ok
        THEN [kind |-> "table", name |-> id.name, quoted |-> id.quoted, cols |-> cols.cols,
              fmt |-> IF "\n" \in Range(text) THEN "lines" ELSE "plain"]
        ELSE Unparsed

\* the literal an escaped pattern matches: \x stands for the character x
RECURSIVE RegexLiteral(_)
RegexLiteral(pattern) ==
    IF pattern = << >> THEN << >>
    ELSE IF Head(pattern) = "\\" /\ Len(pattern) >= 2
         THEN << pattern[2] >> \o RegexLiteral(From(pattern, 3))
    ELSE << Head(pattern) >> \o RegexLiteral(Tail(pattern))

\* \b between the tokens i and i + 1 of text: a word character on one side
\* only
WordBoundary(text, i) ==
    LET word(j) == j \in DOMAIN text /\ IsWord(text[j])
    IN  word(i) # word(i + 1)

\* text.replace(new RegExp(`\\b${pattern}\\b`, "gi"), replacement), from the
\* token i on
RECURSIVE ReplaceWords(_, _, _, _)
ReplaceWords(text, i, pattern, replacement) ==
    LET literal == RegexLiteral(pattern)
        k == Len(literal)
        match == /\ i + k - 1 <= Len(text)
                 /\ \A j \in 1..k : Lower(text[i + j - 1]) = Lower(literal[j])
                 /\ WordBoundary(text, i - 1)
                 /\ WordBoundary(text, i + k - 1)
    IN  IF i > Len(text) THEN << >>
        ELSE IF match THEN replacement \o ReplaceWords(text, i + k, pattern, replacement)
        ELSE << text[i] >> \o ReplaceWords(text, i + 1, pattern, replacement)

\* pristineSql.replace(new RegExp(`\\b${escapeRegex(tblName)}\\b`, "gi"),
\*                     `${tblName}_migration_new`),
\* and what the database engine reads from the outcome
ReplaceTableName(pristineSql, tblName) ==
    ParseCreateTable(ReplaceWords(Render(pristineSql), 1, escapeRegex(Spell(tblName)),
                                  Spell(tblName) \o << "_migration_new" >>))

\* `DROP <TYPE> ${escapeIdentifier(name)}`
DropSql(type, name) == Stmt("DROP", type, name, escapeIdentifier(Spell(name)))

\* `INSERT INTO ${escapeIdentifier(into)} (${cols}) SELECT ${cols} FROM
\* ${escapeIdentifier(from)}`, cols being the columns escaped and joined
InsertSelectSql(into, cols, from) ==
    Stmt("INSERT", "table", into,
         [into |-> escapeIdentifier(Spell(into)),
          cols |-> [i \in DOMAIN cols |-> escapeIdentifier(Spell(cols[i]))],
          from |-> escapeIdentifier(Spell(from))])

\* `ALTER TABLE ${escapeIdentifier(name)} RENAME TO ${escapeIdentifier(to)}`
RenameSql(name, to) ==
    Stmt("RENAME", "table", name,
         [from |-> escapeIdentifier(Spell(name)), to |-> escapeIdentifier(Spell(to))])

\* the identifiers in the text of a statement the migrator sends, as the
\* text spells them
Identifiers(s) ==
    CASE s.op = "DROP" -> << s.arg >>
      [] s.op = "INSERT" -> << s.arg.into >> \o s.arg.cols \o s.arg.cols \o << s.arg.from >>
      [] s.op = "RENAME" -> << s.arg.from, s.arg.to >>
      [] s.op = "CREATE" /\ s.arg.kind = "table" -> << Spelled(s.arg.name, s.arg.quoted) >>
      [] OTHER -> << >>

----------------------------------------------------------------------------
(* The database engine: what each statement the migrator issues does to a   *)
(* catalog.  Every operator returns [ok, db]: ok is FALSE when the engine   *)
(* rejects the statement, and db is then the catalog unchanged.             *)

Reject(db) == [ok |-> FALSE, db |-> db]

Accept(db) == [ok |-> TRUE, db |-> db]

\* tables, views and indices share one namespace; triggers have their own
Names(db) == DOMAIN db.tables \cup DOMAIN db.views \cup DOMAIN db.indices

\* PRAGMA table_info(<table>): the column names, in order
TableInfo(db, table) ==
    IF table \in DOMAIN db.tables THEN db.tables[table].sql.cols ELSE << >>

ExecCreateTable(db, sql) ==
    IF \/ sql.name \in Names(db)
       \/ Cardinality(Range(sql.cols)) # Len(sql.cols)
    THEN Reject(db)
    ELSE Accept([db EXCEPT !.tables = Put(@, sql.name, [sql |-> sql, rows |-> << >>])])

\* DROP TABLE also drops the indices and triggers attached to the table
ExecDropTable(db, name) ==
    IF name \notin DOMAIN db.tables THEN Reject(db)
    ELSE Accept([db EXCEPT
            !.tables = Del(@, {name}),
            !.indices = Del(@, {i \in DOMAIN @ : @[i].tbl = name}),
            !.triggers = Del(@, {g \in DOMAIN @ : @[g].tbl = name})])

ExecCreateView(db, sql) ==
    IF sql.name \in Names(db) THEN Reject(db)
    ELSE Accept([db EXCEPT !.views = Put(@, sql.name, sql)])

\* DROP VIEW also drops the (INSTEAD OF) triggers attached to the view
ExecDropView(db, name) ==
    IF name \notin DOMAIN db.views THEN Reject(db)
    ELSE Accept([db EXCEPT
            !.views = Del(@, {name}),
            !.triggers = Del(@, {g \in DOMAIN @ : @[g].tbl = name})])

ExecCreateIndex(db, sql) ==
    IF \/ sql.name \in Names(db)
       \/ sql.tbl \notin DOMAIN db.tables
       \/ sql.col \notin Range(TableInfo(db, sql.tbl))
    THEN Reject(db)
    ELSE Accept([db EXCEPT !.indices = Put(@, sql.name, sql)])

ExecDropIndex(db, name) ==
    IF name \notin DOMAIN db.indices THEN Reject(db)
    ELSE Accept([db EXCEPT !.indices = Del(@, {name})])

ExecCreateTrigger(db, sql) ==
    IF \/ sql.name \in DOMAIN db.triggers
       \/ sql.tbl \notin DOMAIN db.tables \cup DOMAIN db.views
    THEN Reject(db)
    ELSE Accept([db EXCEPT !.triggers = Put(@, sql.name, sql)])

ExecDropTrigger(db, name) ==
    IF name \notin DOMAIN db.triggers THEN Reject(db)
    ELSE Accept([db EXCEPT !.triggers = Del(@, {name})])

\* INSERT INTO <into> (<cols>) SELECT <cols> FROM <from>
ExecInsertSelect(db, into, cols, from) ==
    IF \/ Len(cols) = 0
       \/ into \notin DOMAIN db.tables
       \/ from \notin DOMAIN db.tables
       \/ ~(Range(cols) \subseteq Range(TableInfo(db, into)))
       \/ ~(Range(cols) \subseteq Range(TableInfo(db, from)))
    THEN Reject(db)
    ELSE LET copy(r) == [c \in Range(TableInfo(db, into)) |->
                            IF c \in Range(cols) THEN r[c] ELSE Null]
             src == db.tables[from].rows
         IN  Accept([db EXCEPT !.tables[into].rows =
                        @ \o [k \in DOMAIN src |-> copy(src[k])]])

\* ALTER TABLE <name> RENAME TO <to>: the stored text is rewritten with the
\* new name in double quotes, and what is attached to the table
\* follows it; the engine refuses when a view of the schema reads a table
\* that does not exist once the table is renamed
ExecRename(db, name, to) ==
    IF \/ name \notin DOMAIN db.tables
       \/ to \in Names(db)
       \/ \E v \in DOMAIN db.views :
            ViewReads(db.views[v]) \notin (DOMAIN db.tables \ {name}) \cup {to}
    THEN Reject(db)
    ELSE LET old == db.tables[name]
             new == [old EXCEPT !.sql.name = to, !.sql.quoted = TRUE]
             move(m) == [n \in DOMAIN m |->
                            IF m[n].tbl = name THEN [m[n] EXCEPT !.tbl = to] ELSE m[n]]
         IN  Accept([db EXCEPT
                !.tables = Put(Del(@, {name}), to, new),
                !.indices = move(@),
                !.triggers = move(@)])

ExecCreate(db, sql) ==
    CASE sql.kind = "table" -> ExecCreateTable(db, sql)
      [] sql.kind = "index" -> ExecCreateIndex(db, sql)
      [] sql.kind = "trigger" -> ExecCreateTrigger(db, sql)
      [] sql.kind = "view" -> ExecCreateView(db, sql)
      [] OTHER -> Reject(db)

ExecDrop(db, kind, name) ==
    CASE kind = "table" -> ExecDropTable(db, name)
      [] kind = "index" -> ExecDropIndex(db, name)
      [] kind = "trigger" -> ExecDropTrigger(db, name)
      [] kind = "view" -> ExecDropView(db, name)

\* one statement against a catalog
Exec(db, s) ==
    CASE s.op = "CREATE" -> ExecCreate(db, s.arg)
      [] s.op = "DROP" -> ExecDrop(db, s.kind, Identifier(s.arg))
      [] s.op = "INSERT" ->
            ExecInsertSelect(db, Identifier(s.arg.into),
                             [i \in DOMAIN s.arg.cols |-> Identifier(s.arg.cols[i])],
                             Identifier(s.arg.from))
      [] s.op = "RENAME" -> ExecRename(db, Identifier(s.arg.from), Identifier(s.arg.to))
      [] Fold(s.op) = "PRAGMA" /\ s.name = "user_version" ->
            Accept([db EXCEPT !.user_version = s.arg])
      \* the other pragmas leave the catalog alone; one the engine does not
      \* know is ignored without an error
      [] Fold(s.op) = "PRAGMA" /\ s.name # "user_version" -> Accept(db)
      [] s.kind = "whitespace" -> Accept(db)
      \* attaching a database file leaves the main catalog alone; there is no
      \* attached database to detach
      [] Fold(s.op) = "ATTACH DATABASE" -> Accept(db)
      [] OTHER -> Reject(db)

\* the statements of a batch in order, up to the first one the engine rejects;
\* n counts the statements executed
RECURSIVE RunStmts(_, _)
RunStmts(db, stmts) ==
    IF Len(stmts) = 0 THEN [ok |-> TRUE, db |-> db, n |-> 0]
    ELSE LET Counted(rest) == [ok |-> rest.ok, db |-> rest.db, n |-> rest.n + 1]
             Continue(r) == IF ~r.ok THEN [ok |-> FALSE, db |-> db, n |-> 0]
                            ELSE Counted(RunStmts(r.db, Tail(stmts)))
         IN  Continue(Exec(db, Head(stmts)))

\* the statement of a batch the engine rejects, for a batch it rejects
RECURSIVE FirstRejected(_, _)
FirstRejected(db, stmts) ==
    LET r == Exec(db, Head(stmts))
    IN  IF ~r.ok THEN Head(stmts) ELSE FirstRejected(r.db, Tail(stmts))

----------------------------------------------------------------------------
(* The migrator: helpers *)

\* the foreign_keys value a script leaves on the connection that ran it
RECURSIVE ScriptForeignKeys(_, _)
ScriptForeignKeys(stmts, fk) ==
    IF Len(stmts) = 0 THEN fk
    ELSE LET s == Head(stmts)
         IN  ScriptForeignKeys(Tail(stmts),
                IF Fold(s.op) = "PRAGMA" /\ s.name = "foreign_keys" THEN s.arg ELSE fk)

\* dangerousPatterns, by their messages, in the order they are tried
dangerousPatterns == << "ATTACH DATABASE", "DETACH DATABASE", "unsafe PRAGMA" >>

\* variant: the patterns without the flag i
PatternTestCaseSensitive(message, s) ==
    CASE message = "unsafe PRAGMA" ->
            s.op = "PRAGMA" /\ StartsWithWord(s.name) /\ ~StartsWithSafePragma(s.name)
      [] OTHER -> s.op = message

\* pattern.test(this.schema), for a script that spells the statement s
PatternTest(message, s) ==
    CASE message = "unsafe PRAGMA" ->
            Fold(s.op) = "PRAGMA" /\ StartsWithWord(s.name) /\ ~StartsWithSafePragma(s.name)
      [] OTHER -> Fold(s.op) = message

\* the patterns that match the script
Matched(stmts) ==
    SelectSeq(dangerousPatterns,
              LAMBDA m : \E i \in DOMAIN stmts : PatternTest(m, stmts[i]))

\* statements the validator refuses to hand to the pristine
Dangerous(stmts) == Matched(stmts) # << >>

DangerousMessage(message) ==
    "Schema contains potentially dangerous statement: " \o message
        \o ". This is not allowed for security reasons."

\* error.message of what the engine raises for a statement it rejects
EngineMessage(s) == "SQLITE_ERROR: " \o s.op \o " " \o s.kind \o " " \o s.name

InvalidSchemaMessage(underlying) == "Invalid schema SQL: " \o underlying

\* variant: a logExecute that sends every statement to the client
LogEntryOnClient(s, via) ==
    [op |-> s.op, kind |-> s.kind, name |-> s.name, via |-> "db", sql |-> Identifiers(s)]

\* what the live database executed, as recorded in the history
LogEntry(s, via) ==
    [op |-> s.op, kind |-> s.kind, name |-> s.name, via |-> via, sql |-> Identifiers(s)]

\* rowsToMap: name -> sql
rowsToMap(m, skip) == [n \in DOMAIN m \ skip |-> m[n].sql]

fetchPristineSchemas(type) ==
    CASE type = "table" -> rowsToMap(pristine.tables, {SQLITE_SEQUENCE})
      [] type = "index" -> pristine.indices
      [] type = "trigger" -> pristine.triggers
      [] type = "view" -> pristine.views

fetchCurrentSchemas(type) ==
    CASE type = "table" -> rowsToMap(txdb.tables, {SQLITE_SEQUENCE})
      [] type = "index" -> txdb.indices
      [] type = "trigger" -> txdb.triggers
      [] type = "view" -> txdb.views

difference(left, right) == DOMAIN left \ DOMAIN right

differenceFromSet(left, right) == left \ right

\* the columns of left that right has too, in left's order
intersection(left, right) == SelectSeq(left, LAMBDA c : c \in Range(right))

\* `PRAGMA table_info(${escapeIdentifier(table)})`
collectColumns(db, table) == TableInfo(db, Identifier(escapeIdentifier(Spell(table))))

\* the indices and triggers whose tbl_name is the table (a view's tbl_name is
\* its own name, so no view is attached to a table)
fetchTableDependencies(db, tableName, type) ==
    LET m == IF type = "index" THEN db.indices ELSE db.triggers
    IN  {n \in DOMAIN m : m[n].tbl = tableName}

newTables == difference(fetchPristineSchemas("table"), tables)

removedTables == difference(tables, fetchPristineSchemas("table"))

\* the pristine's tables in the order of its catalog, which is the order
\* the script created them in
PristineOrder ==
    LET creates == SelectSeq(schema, LAMBDA s : s.op = "CREATE" /\ s.kind = "table")
    IN  [i \in DOMAIN creates |-> creates[i].name]

modifiedTables ==
    LET pristineTables == fetchPristineSchemas("table")
    IN  SelectSeq(PristineOrder, LAMBDA name :
            /\ name \in DOMAIN pristineTables
            /\ name \in DOMAIN tables
            /\ normaliseSql(Render(tables[name])) # normaliseSql(Render(pristineTables[name])))

\* drop what live has and pristine lacks, create what live lacks, and drop
\* and create again what both have with different text
Reconcile(type, current, wanted) ==
    LET obsolete == SetToSeq(difference(current, wanted))
        names == SetToSeq(DOMAIN wanted)
        one(n) == IF n \notin DOMAIN current THEN << Create(wanted[n]) >>
                  ELSE IF Render(wanted[n]) # Render(current[n])
                       THEN << DropSql(type, n), Create(wanted[n]) >>
                       ELSE << >>
        RECURSIVE all(_)
        all(ns) == IF Len(ns) = 0 THEN << >> ELSE one(Head(ns)) \o all(Tail(ns))
    IN  [i \in DOMAIN obsolete |-> DropSql(type, obsolete[i])] \o all(names)

----------------------------------------------------------------------------
(* The migrator: the statements of each phase of performMigration *)

\* variant: a migrator that leaves the live views in place
DropViewStmtsKeepViews == << >>

\* variant: a migrator that drops at the start only the views the pristine
\* database lacks and leaves the others to the view reconciliation
DropViewStmtsObsoleteOnly ==
    LET obsolete == SetToSeq(DOMAIN fetchCurrentSchemas("view")
                                \ DOMAIN fetchPristineSchemas("view"))
    IN  [i \in DOMAIN obsolete |-> DropSql("view", obsolete[i])]

\* Drop ALL views first, before any table migrations
DropViewStmts ==
    LET currentViews == SetToSeq(DOMAIN fetchCurrentSchemas("view"))
    IN  [i \in DOMAIN currentViews |-> DropSql("view", currentViews[i])]

CreateTableStmts ==
    LET names == SetToSeq(newTables)
    IN  [i \in DOMAIN names |-> Create(fetchPristineSchemas("table")[names[i]])]

DropTableStmts ==
    LET names == SetToSeq(removedTables)
    IN  [i \in DOMAIN names |-> DropSql("table", names[i])]

\* variant: a migrator that creates indices but never issues DROP INDEX
IndexStmtsNoDrop ==
    SelectSeq(Reconcile("index", fetchCurrentSchemas("index"), fetchPristineSchemas("index")),
              LAMBDA s : s.op # "DROP")

\* variant: a migrator that reconciles the triggers ahead of the indices
IndexStmtsAfterTriggers ==
    Reconcile("trigger", fetchCurrentSchemas("trigger"), fetchPristineSchemas("trigger"))
        \o Reconcile("index", fetchCurrentSchemas("index"), fetchPristineSchemas("index"))

IndexStmts ==
    Reconcile("index", fetchCurrentSchemas("index"), fetchPristineSchemas("index"))

TriggerStmts ==
    Reconcile("trigger", fetchCurrentSchemas("trigger"), fetchPristineSchemas("trigger"))

ViewStmts ==
    Reconcile("view", fetchCurrentSchemas("view"), fetchPristineSchemas("view"))

\* variant: a migrator that writes user_version whether or not it differs
UserVersionStmtsAlways ==
    << Stmt("PRAGMA", "pragma", "user_version", pristine.user_version) >>

\* migratePragma("user_version"): the live value is read on the client
UserVersionStmts ==
    LET pristineVal == pristine.user_version
        currentVal == live.user_version
    IN  IF currentVal # pristineVal
        THEN << Stmt("PRAGMA", "pragma", "user_version", pristineVal) >>
        ELSE << >>

\* variant: a rebuild that leaves the live triggers to DROP TABLE
RecreateHeadKeepTriggers(tblName) ==
    << Create(ReplaceTableName(fetchPristineSchemas("table")[tblName], tblName)) >>

\* recreateTable, up to and including the CREATE of <table>_migration_new
RecreateHead(tblName) ==
    LET currentTriggers == SetToSeq(fetchTableDependencies(txdb, tblName, "trigger"))
        createSql == ReplaceTableName(fetchPristineSchemas("table")[tblName], tblName)
    IN  [i \in DOMAIN currentTriggers |-> DropSql("trigger", currentTriggers[i])]
        \o << Create(createSql) >>

removedColumns(tblName) ==
    differenceFromSet(Range(collectColumns(txdb, tblName)),
                      Range(collectColumns(pristine, tblName)))

\* variant: a rebuild that drops the old table ahead of the data copy
RecreateTailDropFirst(tblName) ==
    LET common == intersection(collectColumns(txdb, tblName),
                               collectColumns(pristine, tblName))
        indices == SetToSeq(fetchTableDependencies(pristine, tblName, "index"))
        triggers == SetToSeq(fetchTableDependencies(pristine, tblName, "trigger"))
    IN  << DropSql("table", tblName),
           InsertSelectSql(MigrationNew(tblName), common, tblName),
           RenameSql(MigrationNew(tblName), tblName) >>
        \o [i \in DOMAIN indices |-> Create(pristine.indices[indices[i]])]
        \o [i \in DOMAIN triggers |-> Create(pristine.triggers[triggers[i]])]

\* variant: a rebuild that drops the old table and leaves the new one under
\* its temporary name
RecreateTailNoRename(tblName) ==
    LET common == intersection(collectColumns(txdb, tblName),
                               collectColumns(pristine, tblName))
    IN  << InsertSelectSql(MigrationNew(tblName), common, tblName),
           DropSql("table", tblName) >>

\* recreateTable, from the data copy to the re-creation of the dependents
RecreateTail(tblName) ==
    LET common == intersection(collectColumns(txdb, tblName),
                               collectColumns(pristine, tblName))
        indices == SetToSeq(fetchTableDependencies(pristine, tblName, "index"))
        triggers == SetToSeq(fetchTableDependencies(pristine, tblName, "trigger"))
    IN  << InsertSelectSql(MigrationNew(tblName), common, tblName),
           DropSql("table", tblName),
           RenameSql(MigrationNew(tblName), tblName) >>
        \o [i \in DOMAIN indices |-> Create(pristine.indices[indices[i]])]
        \o [i \in DOMAIN triggers |-> Create(pristine.triggers[triggers[i]])]

----------------------------------------------------------------------------
(* The migrator: actions *)

callVars == << schema, allowDeletions, call, db0, fk0, fkRows, peer, norm >>

pristineVars == << pristine, pristineForeignKeys, pristineClosed >>

txVars == << txStatus, txClosed, transaction >>

pragmaVars == << foreign_keys, defer_foreign_keys, origForeignKeys >>

planVars == << tables, todo >>

\* throw out of migrate(): nothing of the function runs after it
Throw(e) ==
    /\ pc' = "done"
    /\ error' = e
    /\ result' = "error"

\* variant: ensurePristine that lets a script the engine rejects through to
\* begin, with the pristine database as far as the script got
EnsurePristineUnchecked ==
    /\ pc = "ensurePristine"
    /\ LET r == RunStmts(EmptyDb, schema)
       IN  IF Len(Trim(schema)) = 0
           THEN /\ pc' = "begin"
                /\ UNCHANGED << pristine, pristineForeignKeys, error, result >>
           ELSE IF Dangerous(schema)
           THEN /\ Throw(DangerousMessage(Head(Matched(schema))))
                /\ UNCHANGED << pristine, pristineForeignKeys >>
           ELSE /\ pc' = "begin"
                /\ pristine' = r.db
                /\ pristineForeignKeys' = ScriptForeignKeys(schema, 0)
                /\ UNCHANGED << error, result >>
    /\ UNCHANGED << live, txdb, txVars, pragmaVars, callVars, pristineClosed,
                    nChanges, planVars, success, log, faulted >>

\* ensurePristine
EnsurePristine ==
    /\ pc = "ensurePristine"
    /\ LET r == RunStmts(EmptyDb, schema)
       IN  IF Len(Trim(schema)) = 0
           THEN /\ pc' = "begin"
                /\ UNCHANGED << pristine, pristineForeignKeys, error, result >>
           ELSE IF Dangerous(schema)
           THEN /\ Throw(DangerousMessage(Head(Matched(schema))))
                /\ UNCHANGED << pristine, pristineForeignKeys >>
           ELSE IF ~r.ok
           THEN /\ Throw(InvalidSchemaMessage(EngineMessage(FirstRejected(EmptyDb, schema))))
                /\ pristine' = r.db
                /\ UNCHANGED pristineForeignKeys
           ELSE /\ pc' = "begin"
                /\ pristine' = r.db
                /\ pristineForeignKeys' = ScriptForeignKeys(schema, 0)
                /\ UNCHANGED << error, result >>
    /\ UNCHANGED << live, txdb, txVars, pragmaVars, callVars, pristineClosed,
                    nChanges, planVars, success, log, faulted >>

\* begin: the database may raise at each of its four calls.  PRAGMA
\* foreign_keys = OFF is sent on the transaction that is already open: the
\* engine either applies it to the connection or treats it as a no-op (what
\* SQLite documents for the pragma inside a transaction)
Begin ==
    /\ pc = "begin"
    /\ \E fault \in {"none", "transaction", "read", "off", "defer"}, applied \in BOOLEAN :
          LET opened == fault # "transaction"
              read == fault \notin {"transaction", "read"}
              off == read /\ foreign_keys # 0 /\ fault # "off"
          IN  /\ fault = "off" => foreign_keys # 0
              /\ ~applied => off
              /\ transaction' = opened
              /\ txStatus' = IF opened THEN "open" ELSE txStatus
              /\ txdb' = live
              /\ origForeignKeys' = IF read THEN foreign_keys ELSE origForeignKeys
              /\ foreign_keys' = IF off /\ applied THEN 0 ELSE foreign_keys
              /\ log' = log
                    \o (IF off THEN << LogEntry(Stmt("PRAGMA", "pragma", "foreign_keys", 0), "tx") >>
                               ELSE << >>)
                    \o (IF fault = "none"
                        THEN << LogEntry(Stmt("PRAGMA", "pragma", "defer_foreign_keys", 1), "tx") >>
                        ELSE << >>)
              /\ nChanges' = IF off THEN 0 ELSE nChanges
              /\ defer_foreign_keys' = (fault = "none")
              /\ faulted' = (faulted \/ fault # "none")
              /\ IF fault = "none"
                 THEN pc' = "performMigration" /\ UNCHANGED << error, result >>
                 ELSE Throw("ExecutionFailure")
    /\ UNCHANGED << live, txClosed, callVars, pristineVars, planVars, success >>

\* logExecute for each statement of a phase, in order: the engine executes
\* them until it rejects one or raises an I/O error after k of them; `raise`
\* is the error the migrator itself throws once the statements are through
Apply(stmts, raise, next) ==
    \E k \in 0..Len(stmts) :
        LET Executed(r) ==
                LET fault == r.ok /\ k < Len(stmts)
                    e == IF ~r.ok \/ fault THEN "ExecutionFailure" ELSE raise
                IN  /\ txdb' = r.db
                    /\ nChanges' = nChanges + r.n
                    /\ log' = log \o [i \in 1..r.n |-> LogEntry(stmts[i], "tx")]
                    /\ faulted' = (faulted \/ fault)
                    /\ error' = e
                    /\ pc' = IF e = "" THEN next ELSE "rollback"
        IN  Executed(RunStmts(txdb, SubSeq(stmts, 1, k)))

phaseVars == << live, txVars, pragmaVars, callVars, pristineVars, success, result >>

DropViews ==
    /\ pc = "performMigration"
    /\ tables' = fetchCurrentSchemas("table")
    /\ Apply(DropViewStmts, "", "createTables")
    /\ UNCHANGED << phaseVars, todo >>

CreateTables ==
    /\ pc = "createTables"
    /\ todo' = modifiedTables
    /\ IF removedTables # {} /\ ~allowDeletions
       THEN Apply(<< >>, "RefuseTables", "")
       ELSE Apply(CreateTableStmts, "", "dropTables")
    /\ UNCHANGED << phaseVars, tables >>

DropTables ==
    /\ pc = "dropTables"
    /\ Apply(DropTableStmts, "", IF todo = << >> THEN "indices" ELSE "recreateTable")
    /\ UNCHANGED << phaseVars, planVars >>

RecreateTable ==
    /\ pc = "recreateTable"
    /\ LET tblName == Head(todo)
       IN  /\ todo' = Tail(todo)
           /\ IF removedColumns(tblName) # {} /\ ~allowDeletions
              THEN Apply(RecreateHead(tblName), "RefuseColumns", "")
              ELSE Apply(RecreateHead(tblName) \o RecreateTail(tblName), "",
                         IF Len(todo) = 1 THEN "indices" ELSE "recreateTable")
    /\ UNCHANGED << phaseVars, tables >>

MigrateIndices ==
    /\ pc = "indices"
    /\ Apply(IndexStmts, "", "triggers")
    /\ UNCHANGED << phaseVars, planVars >>

MigrateTriggers ==
    /\ pc = "triggers"
    /\ Apply(TriggerStmts, "", "views")
    /\ UNCHANGED << phaseVars, planVars >>

MigrateViews ==
    /\ pc = "views"
    /\ Apply(ViewStmts, "", "userVersion")
    /\ UNCHANGED << phaseVars, planVars >>

MigrateUserVersion ==
    /\ pc = "userVersion"
    /\ Apply(UserVersionStmts, "", "foreignKeyCheck")
    /\ UNCHANGED << phaseVars, planVars >>

\* PRAGMA foreign_key_check, run when the pristine's foreign_keys is on
ForeignKeyCheck ==
    /\ pc = "foreignKeyCheck"
    /\ \E fault \in BOOLEAN :
          LET e == IF pristineForeignKeys = 0 THEN ""
                   ELSE IF fault THEN "ExecutionFailure"
                   ELSE IF fkRows > 0 THEN "ForeignKeyViolation"
                   ELSE ""
          IN  /\ fault => pristineForeignKeys # 0
              /\ faulted' = (faulted \/ fault)
              /\ log' = IF pristineForeignKeys # 0 /\ ~fault
                        THEN Append(log, LogEntry(
                                Stmt("PRAGMA", "pragma", "foreign_key_check", 0), "tx"))
                        ELSE log
              /\ error' = e
              /\ pc' = IF e = "" THEN "commit" ELSE "rollback"
    /\ UNCHANGED << phaseVars, planVars, txdb, nChanges >>

\* commit
Commit ==
    /\ pc = "commit"
    /\ \E fault \in BOOLEAN :
          IF fault
          THEN /\ pc' = "rollback"
               /\ error' = "ExecutionFailure"
               /\ faulted' = TRUE
               /\ UNCHANGED << live, txStatus, success, log >>
          ELSE /\ pc' = "finally"
               /\ live' = txdb
               /\ txStatus' = "committed"
               /\ success' = TRUE
               /\ log' = Append(log, LogEntry(Stmt("COMMIT", "transaction", "", 0), "tx"))
               /\ UNCHANGED << error, faulted >>
    /\ UNCHANGED << txdb, txClosed, transaction, pragmaVars, callVars, pristineVars,
                    planVars, nChanges, result >>

\* variant: a rollback that keeps what the transaction wrote
RollbackKeepsChanges ==
    /\ pc = "rollback"
    /\ pc' = "onError"
    /\ live' = txdb
    /\ txStatus' = "rolledback"
    /\ UNCHANGED << txdb, txClosed, transaction, pragmaVars, callVars, pristineVars,
                    planVars, nChanges, success, error, result, log, faulted >>

\* rollback, in the catch block; when it raises, onError is skipped
Rollback ==
    /\ pc = "rollback"
    /\ \E fault \in BOOLEAN :
          IF fault
          THEN /\ pc' = "finally"
               /\ error' = "ExecutionFailure"
               /\ faulted' = TRUE
               /\ UNCHANGED << txdb, txStatus >>
          ELSE /\ pc' = "onError"
               /\ txdb' = live
               /\ txStatus' = "rolledback"
               /\ UNCHANGED << error, faulted >>
    /\ UNCHANGED << live, txClosed, transaction, pragmaVars, callVars, pristineVars,
                    planVars, nChanges, success, result, log >>

\* variant: an onError that switches foreign_keys ON whatever begin read
OnErrorAlways ==
    /\ pc = "onError"
    /\ pc' = "finally"
    /\ \E fault \in BOOLEAN :
          /\ faulted' = (faulted \/ fault)
          /\ error' = IF fault THEN "ExecutionFailure" ELSE error
          /\ IF ~fault
             THEN /\ foreign_keys' = 1
                  /\ nChanges' = nChanges + 1
                  /\ log' = Append(log,
                        LogEntry(Stmt("PRAGMA", "pragma", "foreign_keys", 1), "db"))
             ELSE UNCHANGED << foreign_keys, nChanges, log >>
    /\ UNCHANGED << live, txdb, txVars, defer_foreign_keys, origForeignKeys, callVars,
                    pristineVars, planVars, success, result >>

\* onError: re-enable foreign keys on the client when they were on at begin
OnError ==
    /\ pc = "onError"
    /\ pc' = "finally"
    /\ \E fault \in BOOLEAN :
          /\ fault => origForeignKeys = 1
          /\ faulted' = (faulted \/ fault)
          /\ error' = IF fault THEN "ExecutionFailure" ELSE error
          /\ IF origForeignKeys = 1 /\ ~fault
             THEN /\ foreign_keys' = 1
                  /\ nChanges' = nChanges + 1
                  /\ log' = Append(log,
                        LogEntry(Stmt("PRAGMA", "pragma", "foreign_keys", 1), "db"))
             ELSE UNCHANGED << foreign_keys, nChanges, log >>
    /\ UNCHANGED << live, txdb, txVars, defer_foreign_keys, origForeignKeys, callVars,
                    pristineVars, planVars, success, result >>

\* the finally block up to afterCommit: close the transaction, which rolls
\* back what was neither committed nor rolled back
Finally ==
    /\ pc = "finally"
    /\ txClosed' = TRUE
    /\ transaction' = FALSE
    /\ txStatus' = IF txStatus = "open" THEN "rolledback" ELSE txStatus
    /\ txdb' = IF txStatus = "open" THEN live ELSE txdb
    /\ pc' = IF success THEN "afterCommit" ELSE "closePristine"
    /\ UNCHANGED << live, pragmaVars, callVars, pristineVars, planVars, nChanges,
                    success, error, result, log, faulted >>

\* variant: an afterCommit that never rewinds the change counter
AfterCommitKeepsCount ==
    /\ pc = "afterCommit"
    /\ \E fault \in BOOLEAN :
          LET pristineVal == pristineForeignKeys
              currentVal == foreign_keys
              set == currentVal # pristineVal /\ ~fault
              n == IF set THEN nChanges + 1 ELSE nChanges
          IN  /\ fault => currentVal # pristineVal
              /\ faulted' = (faulted \/ fault)
              /\ foreign_keys' = IF set THEN pristineVal ELSE foreign_keys
              /\ log' = IF set
                        THEN Append(log, LogEntry(
                                Stmt("PRAGMA", "pragma", "foreign_keys", pristineVal), "db"))
                        ELSE log
              /\ nChanges' = IF fault THEN nChanges ELSE n
              /\ IF fault THEN Throw("ExecutionFailure")
                 ELSE /\ pc' = IF n > 0 THEN "vacuum" ELSE "closePristine"
                      /\ UNCHANGED << error, result >>
    /\ UNCHANGED << live, txdb, txVars, defer_foreign_keys, origForeignKeys, callVars,
                    pristineVars, planVars, success >>

\* variant: an afterCommit that puts foreign_keys back to what begin read
AfterCommitRestoresOriginal ==
    /\ pc = "afterCommit"
    /\ \E fault \in BOOLEAN :
          LET oldChanges == nChanges
              pristineVal == origForeignKeys
              currentVal == foreign_keys
              set == currentVal # pristineVal /\ ~fault
              counted == IF set THEN nChanges + 1 ELSE nChanges
              n == IF pristineVal = origForeignKeys THEN oldChanges ELSE counted
          IN  /\ fault => currentVal # pristineVal
              /\ faulted' = (faulted \/ fault)
              /\ foreign_keys' = IF set THEN pristineVal ELSE foreign_keys
              /\ log' = IF set
                        THEN Append(log, LogEntry(
                                Stmt("PRAGMA", "pragma", "foreign_keys", pristineVal), "db"))
                        ELSE log
              /\ nChanges' = IF fault THEN nChanges ELSE n
              /\ IF fault THEN Throw("ExecutionFailure")
                 ELSE /\ pc' = IF n > 0 THEN "vacuum" ELSE "closePristine"
                      /\ UNCHANGED << error, result >>
    /\ UNCHANGED << live, txdb, txVars, defer_foreign_keys, origForeignKeys, callVars,
                    pristineVars, planVars, success >>

\* afterCommit, up to the VACUUM decision: migratePragma("foreign_keys") on the
\* client, and the change counter rewound when the value is the original one
AfterCommit ==
    /\ pc = "afterCommit"
    /\ \E fault \in BOOLEAN :
          LET oldChanges == nChanges
              pristineVal == pristineForeignKeys
              currentVal == foreign_keys
              set == currentVal # pristineVal /\ ~fault
              counted == IF set THEN nChanges + 1 ELSE nChanges
              n == IF pristineVal = origForeignKeys THEN oldChanges ELSE counted
          IN  /\ fault => currentVal # pristineVal
              /\ faulted' = (faulted \/ fault)
              /\ foreign_keys' = IF set THEN pristineVal ELSE foreign_keys
              /\ log' = IF set
                        THEN Append(log, LogEntry(
                                Stmt("PRAGMA", "pragma", "foreign_keys", pristineVal), "db"))
                        ELSE log
              /\ nChanges' = IF fault THEN nChanges ELSE n
              /\ IF fault THEN Throw("ExecutionFailure")
                 ELSE /\ pc' = IF n > 0 THEN "vacuum" ELSE "closePristine"
                      /\ UNCHANGED << error, result >>
    /\ UNCHANGED << live, txdb, txVars, defer_foreign_keys, origForeignKeys, callVars,
                    pristineVars, planVars, success >>

\* variant: an afterCommit that never runs VACUUM
VacuumSkipped ==
    /\ pc = "vacuum"
    /\ pc' = "closePristine"
    /\ UNCHANGED << live, txdb, txVars, pragmaVars, callVars, pristineVars, planVars,
                    nChanges, success, error, result, log, faulted >>

\* VACUUM on the client
Vacuum ==
    /\ pc = "vacuum"
    /\ \E fault \in BOOLEAN :
          /\ faulted' = (faulted \/ fault)
          /\ IF fault
             THEN Throw("ExecutionFailure") /\ UNCHANGED log
             ELSE /\ pc' = "closePristine"
                  /\ log' = Append(log, LogEntry(Stmt("VACUUM", "database", "main", 0), "db"))
                  /\ UNCHANGED << error, result >>
    /\ UNCHANGED << live, txdb, txVars, pragmaVars, callVars, pristineVars, planVars,
                    nChanges, success >>

\* pristine.close(), then migrate() returns nChanges > 0 or rethrows
ClosePristine ==
    /\ pc = "closePristine"
    /\ pristineClosed' = TRUE
    /\ pc' = "done"
    /\ result' = IF error # "" THEN "error" ELSE IF nChanges > 0 THEN "true" ELSE "false"
    /\ UNCHANGED << live, txdb, txVars, pragmaVars, callVars, pristine,
                    pristineForeignKeys, planVars, nChanges, success, error, log, faulted >>

\* the caller runs migrate(db, schema, allowDeletions) once more with the same
\* arguments: a new Migrator on the database the first call left
MigrateAgain ==
    /\ pc = "done"
    /\ call = "first"
    /\ result \in {"true", "false"}
    /\ call' = "second"
    /\ db0' = live
    /\ fk0' = foreign_keys
    /\ pc' = "ensurePristine"
    /\ pristine' = EmptyDb
    /\ pristineForeignKeys' = 0
    /\ pristineClosed' = FALSE
    /\ txStatus' = "none"
    /\ txClosed' = FALSE
    /\ transaction' = FALSE
    /\ txdb' = live
    /\ origForeignKeys' = -1
    /\ defer_foreign_keys' = FALSE
    /\ nChanges' = 0
    /\ tables' = EmptyMap
    /\ todo' = << >>
    /\ success' = FALSE
    /\ error' = ""
    /\ result' = "none"
    /\ log' = << >>
    /\ faulted' = FALSE
    /\ UNCHANGED << live, foreign_keys, schema, allowDeletions, fkRows, peer, norm >>

----------------------------------------------------------------------------
(* The calls explored: a live database and a target script per behaviour *)

Absent == << >>

\* the column lists a table is declared with; each table also has a list
\* with a column spelled like the table itself
ColumnLists(name) ==
    IF name = "t"
    THEN {<< "a" >>, << "a", "b" >>, << "b" >>, << "a", "t" >>}
    ELSE {<< "a" >>, << "a", "u" >>, << "a", "b", "u" >>}

IndexChoices == {IndexSql("i", tbl, "a", FALSE) : tbl \in {"t", "u"}}
                    \cup {IndexSql("i", "t", "a", TRUE)}

TriggerChoices == {TriggerSql("g", tbl, "b1") : tbl \in {"t", "u", "v"}}
                    \cup {TriggerSql("g", "t", "b2")}

ViewChoices == {ViewSql("v", body) : body \in {"s1", "s2"}}

AtMostOne(S) == {{}} \cup {{x} : x \in S}

Creates(S) == LET q == SetToSeq(S) IN [i \in DOMAIN q |-> Create(q[i])]

TableCreates(t, u) ==
    (IF t = Absent THEN << >> ELSE << Create(TableSql("t", t)) >>)
    \o (IF u = Absent THEN << >> ELSE << Create(TableSql("u", u)) >>)

Reverse(q) == [i \in DOMAIN q |-> q[Len(q) + 1 - i]]

\* the statements that define the objects of an input
Definitions(t, u, views, indices, triggers) ==
    TableCreates(t, u) \o Creates(views) \o Creates(indices) \o Creates(triggers)

Pragma(name, val) ==
    IF val = 0 THEN << >> ELSE << Stmt("PRAGMA", "pragma", name, val) >>

InitialRows(cols) == [k \in 1..MaxRows |-> [c \in Range(cols) |-> Cell(k, c)]]

\* a live database: the definitions executed on an empty database, and
\* MaxRows rows inserted into every table
LiveDatabase(defs, version) ==
    LET Filled(db) ==
            [db EXCEPT !.tables =
                [n \in DOMAIN db.tables |->
                    [db.tables[n] EXCEPT !.rows = InitialRows(db.tables[n].sql.cols)]]]
    IN  Filled(RunStmts(EmptyDb, defs \o Pragma("user_version", version)).db)

Input(defsLive, versionLive, fkLive, script, allow, fkViolations) ==
    [live |-> LiveDatabase(defsLive, versionLive), foreign_keys |-> fkLive,
     schema |-> script, allowDeletions |-> allow, fkRows |-> fkViolations]

\* tables added, dropped, rebuilt and left alone, with and without permission
\* to delete, the script naming them in either order
TableInputs ==
    {Input(TableCreates(tl, ul), 0, 0,
           IF backwards THEN Reverse(TableCreates(tp, up)) ELSE TableCreates(tp, up),
           allow, 0) :
        tl \in {Absent} \cup ColumnLists("t"), tp \in {Absent} \cup ColumnLists("t"),
        ul \in {Absent, << "a" >>, << "a", "u" >>}, up \in {Absent} \cup ColumnLists("u"),
        allow \in BOOLEAN, backwards \in BOOLEAN}

ValidDefinitions(defs) == RunStmts(EmptyDb, defs).ok

\* indices, triggers and views on tables that are rebuilt or left alone; at
\* most two kinds of dependents differ from the fully populated schema
DependentInputs ==
    LET all == [i |-> {IndexSql("i", "t", "a", FALSE)},
                g |-> {TriggerSql("g", "t", "b1")},
                v |-> {ViewSql("v", "s1")}]
        S == {<< tp, il, ip, gl, gp, vl, vp >> \in
                {<< "a" >>, << "a", "b" >>}
                \X AtMostOne(IndexChoices) \X AtMostOne(IndexChoices)
                \X AtMostOne(TriggerChoices) \X AtMostOne(TriggerChoices)
                \X AtMostOne(ViewChoices) \X AtMostOne(ViewChoices) :
                /\ \/ il = {} /\ ip = {}
                   \/ gl = {} /\ gp = {}
                   \/ vl = {} /\ vp = {}
                   \/ il = all.i /\ ip = all.i /\ gl = all.g /\ vl = all.v
                /\ il \cap {IndexSql("i", "t", "a", TRUE)} = {}
                /\ gl \cap {TriggerSql("g", "t", "b2")} = {}
                /\ vl \cap {ViewSql("v", "s2")} = {}
                /\ ValidDefinitions(Definitions(<< "a" >>, << "a" >>, vl, il, gl))
                /\ ValidDefinitions(Definitions(tp, << "a" >>, vp, ip, gp))}
    IN  {Input(Definitions(<< "a" >>, << "a" >>, x[6], x[2], x[4]), 0, 0,
               Definitions(x[1], << "a" >>, x[7], x[3], x[5]), FALSE, 0) : x \in S}

\* user_version and foreign_keys on either side, with and without foreign
\* key violations in the data, with and without a view
PragmaInputs ==
    {Input(Definitions(tl, Absent, views, {}, {}), vl, fl,
           Definitions(<< "a" >>, Absent, views, {}, {})
               \o Pragma("user_version", vp) \o Pragma("foreign_keys", fp),
           FALSE, n) :
        tl \in {Absent, << "a" >>}, views \in AtMostOne({ViewSql("v", "s1")}),
        vl \in 0..MaxVersion, vp \in 0..MaxVersion,
        fl \in {0, 1}, fp \in {0, 1}, n \in {0, 1}}

\* scripts the validator or the pristine database rejects
RejectedInputs ==
    {Input(TableCreates(<< "a" >>, Absent), vl, fl, script, allow, 0) :
        vl \in 0..MaxVersion, fl \in {0, 1}, allow \in BOOLEAN,
        script \in {<< Create(IndexSql("i", "t", "a", FALSE)) >>,
                    TableCreates(<< "a", "b" >>, Absent)
                        \o << Stmt("CREATE TABEL", "table", "u", 0) >>}}

\* scripts that are empty or hold whitespace only, on empty and populated
\* databases
EmptySchemaInputs ==
    {Input(Definitions(tl, Absent, views, IF tl = Absent THEN {} ELSE indices, {}),
           vl, 0, script, allow, 0) :
        tl \in {Absent, << "a" >>}, views \in AtMostOne({ViewSql("v", "s1")}),
        indices \in AtMostOne({IndexSql("i", "t", "a", FALSE)}),
        vl \in 0..MaxVersion,
        script \in {<< >>, << Whitespace >>, << Whitespace, Whitespace >>},
        allow \in BOOLEAN}

\* scripts with a pragma outside the five names: one the engine knows, the
\* same one quoted, and one whose name begins with a listed name
OtherPragmaInputs ==
    {Input(TableCreates(tl, Absent), 0, 0,
           TableCreates(<< "a" >>, Absent) \o << Stmt(op, "pragma", name, 1) >>, FALSE, 0) :
        tl \in {Absent, << "a" >>},
        op \in {"PRAGMA", "pragma", "Pragma"},
        name \in {"journal_mode", "\"journal_mode\"", "foreign_keys_legacy",
                  "user_version_backup", "table_info"}}

\* a migration with work in every phase: table t gains a column and keeps its
\* index and trigger, table u goes, table w comes with an index and a trigger
\* of its own, the view, user_version and foreign_keys change
ComplexInputs ==
    {Input(Definitions(<< "a" >>, << "a" >>, {ViewSql("v", "s1")},
                       {IndexSql("i", "t", "a", FALSE)}, {TriggerSql("g", "t", "b1")}),
           0, fl,
           << Create(TableSql("t", << "a", "b" >>)), Create(TableSql("w", << "a" >>)),
              Create(IndexSql("i", "t", "a", FALSE)), Create(IndexSql("j", "w", "a", FALSE)),
              Create(TriggerSql("g", "t", "b1")), Create(TriggerSql("h", "w", "b1")),
              Create(ViewSql("v", "s2")) >>
               \o Pragma("user_version", 1) \o Pragma("foreign_keys", 1 - fl),
           TRUE, n) :
        fl \in {0, 1}, n \in {0, 1}}

\* ATTACH DATABASE and DETACH DATABASE as a script can spell them
AttachSpellings == {"ATTACH DATABASE", "attach database", "Attach Database"}

DetachSpellings == {"DETACH DATABASE", "detach database", "Detach Database"}

\* scripts with an ATTACH DATABASE or a DETACH DATABASE statement, alone,
\* after the table definitions and before another banned statement
BannedInputs ==
    {Input(TableCreates(<< "a" >>, Absent), 0, fl,
           before \o << Stmt(op, "database", "other", 0) >> \o after, allow, 0) :
        fl \in {0, 1}, allow \in BOOLEAN,
        op \in AttachSpellings \cup DetachSpellings,
        before \in {<< >>, TableCreates(<< "a", "b" >>, Absent)},
        after \in {<< >>, << Stmt("attach database", "database", "third", 0) >>,
                   << Stmt("PRAGMA", "pragma", "journal_mode", 1) >>}}

\* rebuilds of tables whose name, or one of whose columns, is spelled with
\* a double quote, a dash, an at sign, a hash or a space
SpecialNameInputs ==
    {Input(<< Create(TableSql(n, << "a" >>)) >>, 0, 0,
           << Create(TableSql(n, << "a", "b" >>)) >>, FALSE, 0) :
        n \in {"my-table", "a\"b", "t#"}}
    \cup {Input(<< Create(TableSql("t", c[1])) >>, 0, 0,
                << Create(TableSql("t", c[2])) >>, FALSE, 0) :
            c \in {<< << "a", "user name" >>,
                      << "a", "user name", "email@address", "phone#number" >> >>,
                   << << "a", "a\"b" >>, << "a", "a\"b", "b" >> >>,
                   << << "a", "t-x" >>, << "a", "b", "t-x" >> >>}}

\* a definition written over several lines
Lines(sql) == [sql EXCEPT !.fmt = "lines"]

\* a table with an index, a trigger or a view, which the live database and
\* the script write in different layouts, or of which one writes the name of
\* the table in double quotes
LayoutInputs ==
    LET table == TableSql("t", << "a", "b" >>)
        dependents == {<< >>, << IndexSql("i", "t", "a", FALSE) >>,
                       << TriggerSql("g", "t", "b1") >>, << ViewSql("v", "s1") >>}
    IN  {Input(<< Create(Lines(table)) >> \o [i \in DOMAIN d |-> Create(Lines(d[i]))], 0, 0,
               << Create(table) >> \o [i \in DOMAIN d |-> Create(d[i])], FALSE, 0) :
            d \in dependents}
        \cup {Input(<< Create(table) >> \o [i \in DOMAIN d |-> Create(d[i])], 0, 0,
                    << Create(Lines(table)) >> \o [i \in DOMAIN d |-> Create(Lines(d[i]))],
                    FALSE, 0) :
                d \in dependents}
        \cup {Input(<< Create(table) >>, 0, 0,
                    << Create([table EXCEPT !.quoted = TRUE]) >>, FALSE, 0)}

Inputs ==
    TableInputs \cup DependentInputs \cup PragmaInputs \cup RejectedInputs
        \cup EmptySchemaInputs \cup BannedInputs \cup OtherPragmaInputs
        \cup ComplexInputs \cup SpecialNameInputs \cup LayoutInputs

\* migrate() called on its own
NoPeer == [stage |-> "single"]

\* no call of normaliseSql on its own
NoText == [step |-> "none"]

Init ==
    \E in \in Inputs :
        /\ live = in.live
        /\ txdb = in.live
        /\ foreign_keys = in.foreign_keys
        /\ schema = in.schema
        /\ allowDeletions = in.allowDeletions
        /\ fkRows = in.fkRows
        /\ db0 = in.live
        /\ fk0 = in.foreign_keys
    /\ txStatus = "none"
    /\ txClosed = FALSE
    /\ transaction = FALSE
    /\ defer_foreign_keys = FALSE
    /\ pristine = EmptyDb
    /\ pristineForeignKeys = 0
    /\ pristineClosed = FALSE
    /\ origForeignKeys = -1
    /\ nChanges = 0
    /\ tables = EmptyMap
    /\ todo = << >>
    /\ pc = "ensurePristine"
    /\ success = FALSE
    /\ error = ""
    /\ result = "none"
    /\ log = << >>
    /\ call = "first"
    /\ faulted = FALSE
    /\ peer = NoPeer
    /\ norm = NoText

Next ==
    \/ EnsurePristine
    \/ Begin
    \/ DropViews
    \/ CreateTables
    \/ DropTables
    \/ RecreateTable
    \/ MigrateIndices
    \/ MigrateTriggers
    \/ MigrateViews
    \/ MigrateUserVersion
    \/ ForeignKeyCheck
    \/ Commit
    \/ Rollback
    \/ OnError
    \/ Finally
    \/ AfterCommit
    \/ Vacuum
    \/ ClosePristine
    \/ MigrateAgain

Spec == Init /\ [][Next]_vars

----------------------------------------------------------------------------
(* Two migrate calls on two live databases.  Every call constructs its own  *)
(* Migrator, whose fields are the pristine client, the transaction, the     *)
(* original foreign_keys value and the change counter; the module holds no  *)
(* mutable state.  The variables above are those of the migrator that is    *)
(* running; the one that waits at a database call is kept in peer.saved.    *)
(* Migrator A first runs alone from its input (peer.alone keeps how it      *)
(* ended), then starts again from the same input beside migrator B.         *)

\* the live database, the connection and the Migrator of the running call
Running ==
    [live |-> live, txdb |-> txdb, txStatus |-> txStatus, txClosed |-> txClosed,
     foreign_keys |-> foreign_keys, defer_foreign_keys |-> defer_foreign_keys,
     schema |-> schema, allowDeletions |-> allowDeletions, pristine |-> pristine,
     pristineForeignKeys |-> pristineForeignKeys, pristineClosed |-> pristineClosed,
     transaction |-> transaction, origForeignKeys |-> origForeignKeys,
     nChanges |-> nChanges, tables |-> tables, todo |-> todo, pc |-> pc,
     success |-> success, error |-> error, result |-> result, log |-> log,
     call |-> call, db0 |-> db0, fk0 |-> fk0, fkRows |-> fkRows, faulted |-> faulted]

\* new Migrator(db, schema, allowDeletions) on a database with content d
Constructed(d, fk, script, allow, violations) ==
    [live |-> d, txdb |-> d, txStatus |-> "none", txClosed |-> FALSE,
     foreign_keys |-> fk, defer_foreign_keys |-> FALSE,
     schema |-> script, allowDeletions |-> allow, pristine |-> EmptyDb,
     pristineForeignKeys |-> 0, pristineClosed |-> FALSE,
     transaction |-> FALSE, origForeignKeys |-> -1,
     nChanges |-> 0, tables |-> EmptyMap, todo |-> << >>, pc |-> "ensurePristine",
     success |-> FALSE, error |-> "", result |-> "none", log |-> << >>,
     call |-> "first", db0 |-> d, fk0 |-> fk, fkRows |-> violations, faulted |-> FALSE]

\* the migrator m resumes; its change counter is n
Resume(m, n) ==
    /\ live' = m.live /\ txdb' = m.txdb /\ txStatus' = m.txStatus /\ txClosed' = m.txClosed
    /\ foreign_keys' = m.foreign_keys /\ defer_foreign_keys' = m.defer_foreign_keys
    /\ schema' = m.schema /\ allowDeletions' = m.allowDeletions /\ pristine' = m.pristine
    /\ pristineForeignKeys' = m.pristineForeignKeys /\ pristineClosed' = m.pristineClosed
    /\ transaction' = m.transaction /\ origForeignKeys' = m.origForeignKeys
    /\ nChanges' = n /\ tables' = m.tables /\ todo' = m.todo /\ pc' = m.pc
    /\ success' = m.success /\ error' = m.error /\ result' = m.result /\ log' = m.log
    /\ call' = m.call /\ db0' = m.db0 /\ fk0' = m.fk0 /\ fkRows' = m.fkRows
    /\ faulted' = m.faulted

\* the calls of the pair: a rebuild with foreign_keys ON in the script, which
\* passes or fails foreign_key_check, and a refused deletion on a connection
\* with foreign_keys ON
PairInputs ==
    {Input(TableCreates(<< "a" >>, Absent), 0, 0,
           TableCreates(<< "a", "b" >>, Absent) \o Pragma("foreign_keys", 1), FALSE, n) :
        n \in {0, 1}}
    \cup {Input(TableCreates(<< "a" >>, << "a" >>), 0, 1,
                TableCreates(<< "a" >>, Absent), FALSE, 0)}

InitPair ==
    \E in \in PairInputs :
        LET m == Constructed(in.live, in.foreign_keys, in.schema, in.allowDeletions, in.fkRows)
        IN  /\ live = m.live /\ txdb = m.txdb /\ txStatus = m.txStatus /\ txClosed = m.txClosed
            /\ foreign_keys = m.foreign_keys /\ defer_foreign_keys = m.defer_foreign_keys
            /\ schema = m.schema /\ allowDeletions = m.allowDeletions /\ pristine = m.pristine
            /\ pristineForeignKeys = m.pristineForeignKeys /\ pristineClosed = m.pristineClosed
            /\ transaction = m.transaction /\ origForeignKeys = m.origForeignKeys
            /\ nChanges = m.nChanges /\ tables = m.tables /\ todo = m.todo /\ pc = m.pc
            /\ success = m.success /\ error = m.error /\ result = m.result /\ log = m.log
            /\ call = m.call /\ db0 = m.db0 /\ fk0 = m.fk0 /\ fkRows = m.fkRows
            /\ faulted = m.faulted
            /\ peer = [stage |-> "alone", who |-> "A", saved |-> m, alone |-> m,
                       interleaved |-> FALSE]
            /\ norm = NoText

\* migrator A has run alone: it is constructed again on a database with the
\* same content, and migrator B is constructed on a database of its own
StartTogether ==
    /\ peer.stage = "alone"
    /\ pc = "done"
    /\ \E in \in PairInputs :
          peer' = [stage |-> "together", who |-> "A",
                   saved |-> Constructed(in.live, in.foreign_keys, in.schema,
                                         in.allowDeletions, in.fkRows),
                   alone |-> Running, interleaved |-> FALSE]
    /\ LET m == Constructed(db0, fk0, schema, allowDeletions, fkRows)
       IN  Resume(m, m.nChanges)
    /\ UNCHANGED norm

InFlight(m) == m.pc \notin {"ensurePristine", "done"}

\* variant: Migrators that keep their change counter in one place
SwitchSharedCounter ==
    /\ peer.stage = "together"
    /\ peer.saved.pc # "done"
    /\ peer' = [peer EXCEPT !.who = IF @ = "A" THEN "B" ELSE "A",
                            !.saved = Running,
                            !.interleaved = @ \/ (InFlight(Running) /\ InFlight(peer.saved))]
    /\ Resume(peer.saved, nChanges)
    /\ UNCHANGED norm

\* at a database call of the running migrator the other one goes on
Switch ==
    /\ peer.stage = "together"
    /\ peer.saved.pc # "done"
    /\ peer' = [peer EXCEPT !.who = IF @ = "A" THEN "B" ELSE "A",
                            !.saved = Running,
                            !.interleaved = @ \/ (InFlight(Running) /\ InFlight(peer.saved))]
    /\ Resume(peer.saved, peer.saved.nChanges)
    /\ UNCHANGED norm

NextPair ==
    \/ EnsurePristine
    \/ Begin
    \/ DropViews
    \/ CreateTables
    \/ DropTables
    \/ RecreateTable
    \/ MigrateIndices
    \/ MigrateTriggers
    \/ MigrateViews
    \/ MigrateUserVersion
    \/ ForeignKeyCheck
    \/ Commit
    \/ Rollback
    \/ OnError
    \/ Finally
    \/ AfterCommit
    \/ Vacuum
    \/ ClosePristine
    \/ StartTogether
    \/ Switch

SpecPair == InitPair /\ [][NextPair]_vars

----------------------------------------------------------------------------
(* normaliseSql called on its own, one replace at a time *)

\* pieces of text put together at most
MaxPieces == 3

\* what the texts are made of: bare words, quoted identifiers (a word, a word
\* that starts with a digit, two words with a space, a dash or a double quote
\* between them), comments with and without the end of their line, blanks
\* and delimiters
Pieces ==
    {<< "a" >>, << "B" >>,
     << Quote, "a", Quote >>, << Quote, "1a", Quote >>,
     << Quote, "a", " ", "b", Quote >>, << Quote, "a", "-", "b", Quote >>,
     << Quote, "a", Quote, Quote, "b", Quote >>,
     << "-", "-", " ", "c", "\n" >>, << "-", "-", "c" >>,
     << " " >>, << "\n", " ", " " >>, << "\t" >>,
     << "(" >>, << ")" >>, << "," >>}

RECURSIVE Concat(_)
Concat(pieces) == IF Len(pieces) = 0 THEN << >> ELSE Head(pieces) \o Concat(Tail(pieces))

SqlTexts ==
    {Concat(pieces) : pieces \in UNION {[1..n -> Pieces] : n \in 0..MaxPieces}}

InitText ==
    LET m == Constructed(EmptyDb, 0, << >>, FALSE, 0)
    IN  /\ live = m.live /\ txdb = m.txdb /\ txStatus = m.txStatus /\ txClosed = m.txClosed
        /\ foreign_keys = m.foreign_keys /\ defer_foreign_keys = m.defer_foreign_keys
        /\ schema = m.schema /\ allowDeletions = m.allowDeletions /\ pristine = m.pristine
        /\ pristineForeignKeys = m.pristineForeignKeys /\ pristineClosed = m.pristineClosed
        /\ transaction = m.transaction /\ origForeignKeys = m.origForeignKeys
        /\ nChanges = m.nChanges /\ tables = m.tables /\ todo = m.todo /\ pc = m.pc
        /\ success = m.success /\ error = m.error /\ result = m.result /\ log = m.log
        /\ call = m.call /\ db0 = m.db0 /\ fk0 = m.fk0 /\ fkRows = m.fkRows
        /\ faulted = m.faulted
        /\ peer = NoPeer
        /\ \E sql \in SqlTexts :
              norm = [step |-> "comments", input |-> sql, sql |-> sql, pass |-> 1]

migratorVars ==
    << live, txdb, txStatus, txClosed, foreign_keys, defer_foreign_keys,
       schema, allowDeletions, pristine, pristineForeignKeys, pristineClosed,
       transaction, origForeignKeys, nChanges, tables, todo, pc, success,
       error, result, log, call, db0, fk0, fkRows, faulted, peer >>

\* .replace(/--[^\n]*\n/g, "")
ReplaceComments ==
    /\ norm.step = "comments"
    /\ norm' = [norm EXCEPT !.step = "whitespace", !.sql = RemoveComments(@)]
    /\ UNCHANGED migratorVars

\* .replace(/\s+/g, " ")
ReplaceWhitespace ==
    /\ norm.step = "whitespace"
    /\ norm' = [norm EXCEPT !.step = "delimiters", !.sql = CollapseWhitespace(@)]
    /\ UNCHANGED migratorVars

\* .replace(/ *([(),]) */g, "$1")
ReplaceDelimiters ==
    /\ norm.step = "delimiters"
    /\ norm' = [norm EXCEPT !.step = "quotes", !.sql = TightenDelimiters(@)]
    /\ UNCHANGED migratorVars

\* .replace(/"(\w+)"/g, "$1")
ReplaceQuotes ==
    /\ norm.step = "quotes"
    /\ norm' = [norm EXCEPT !.step = "trim", !.sql = StripQuotes(@)]
    /\ UNCHANGED migratorVars

\* .trim(), and the return
ReturnTrimmed ==
    /\ norm.step = "trim"
    /\ norm' = [norm EXCEPT !.step = "returned", !.sql = TrimText(@)]
    /\ UNCHANGED migratorVars

\* the caller hands what normaliseSql returned to normaliseSql once more
NormaliseAgain ==
    /\ norm.step = "returned"
    /\ norm.pass = 1
    /\ norm' = [step |-> "comments", input |-> norm.sql, sql |-> norm.sql, pass |-> 2]
    /\ UNCHANGED migratorVars

NextText ==
    \/ ReplaceComments
    \/ ReplaceWhitespace
    \/ ReplaceDelimiters
    \/ ReplaceQuotes
    \/ ReturnTrimmed
    \/ NormaliseAgain

SpecText == InitText /\ [][NextText]_vars

----------------------------------------------------------------------------
(* Properties: vocabulary *)

\* migrate() has returned a value to the caller
Succeeded == pc = "done" /\ result \in {"true", "false"}

\* migrate() has raised an error to the caller
Raised == pc = "done" /\ result = "error"

\* the positions in the history of the statements <op> <kind> <name>
Pos(op, kind, name) ==
    {i \in DOMAIN log : log[i].op = op /\ log[i].kind = kind /\ log[i].name = name}

\* the tables this call rebuilt all the way to the rename
Rebuilt == {n \in DOMAIN db0.tables : Pos("RENAME", "table", MigrationNew(n)) # {}}

\* the script is one ensurePristine accepts
ValidSchema == ~Dangerous(schema) /\ RunStmts(EmptyDb, schema).ok

Columns(db, n) == Range(TableInfo(db, n))

\* the script omits a table of the database the call began on, or a column
\* of a table both have
OmitsTableOrColumn ==
    \E n \in DOMAIN db0.tables \ {SQLITE_SEQUENCE} :
        \/ n \notin DOMAIN pristine.tables
        \/ ~(Columns(db0, n) \subseteq Columns(pristine, n))

----------------------------------------------------------------------------
(* C1 - C3: idempotence, atomicity, no partial success *)

\* C1 (idempotence): when the second migrate call, made with the arguments of
\* the successful first one, is through without an engine fault, it has
\* returned false, has executed no VACUUM, and the live database is the one
\* the first call left.
C1_Idempotence ==
    (call = "second" /\ pc = "done" /\ ~faulted)
        => /\ result = "false"
           /\ Pos("VACUUM", "database", "main") = {}
           /\ live = db0

\* C2 (atomicity): when a call whose plan-and-apply phase or commit failed is
\* through its finally block, the write transaction is rolled back and the
\* live database is the one the transaction began on.
C2_Atomicity ==
    (error # "" /\ ~success /\ txClosed)
        => /\ txStatus = "rolledback"
           /\ live = db0
           /\ txdb = db0

\* a call that failed after it had rebuilt a table inside the transaction
C2_Witness ==
    /\ Raised /\ txClosed
    /\ \E i \in DOMAIN log : log[i].op = "RENAME"
    /\ live = db0

\* C3 (no partial success): whenever migrate has raised an error, the live
\* database holds no change made by the call.
C3_NoPartialSuccess == Raised => live = db0

----------------------------------------------------------------------------
(* C4 - C6: the deletion guard, data preservation, table convergence *)

\* C4 (deletion guard): when the script is valid and omits a table of the live
\* database, or a column of a table both have, and allowDeletions is false, a
\* call the engine does not disturb with a fault ends with one of the two
\* refusals, and the live database is as before the call.
C4_DeletionGuard ==
    (pc = "done" /\ ~faulted /\ ValidSchema /\ OmitsTableOrColumn /\ ~allowDeletions)
        => /\ result = "error"
           /\ error \in {"RefuseTables", "RefuseColumns"}
           /\ live = db0

\* the rows of table n in db, restricted to the columns cs
RowsOn(db, n, cs) ==
    LET rows == db.tables[n].rows
    IN  [k \in DOMAIN rows |-> [c \in cs |-> rows[k][c]]]

\* C5 (data preservation): after a successful migrate, every rebuilt table has
\* as many rows as before, every row has the values it had on the columns
\* common to the live and the pristine definition, and NULL on the columns
\* only the pristine defines.
C5_DataPreservation ==
    Succeeded =>
        \A n \in Rebuilt :
            LET common == Columns(db0, n) \cap Columns(pristine, n)
                added == Columns(pristine, n) \ Columns(db0, n)
            IN  /\ n \in DOMAIN live.tables
                /\ Len(live.tables[n].rows) = Len(db0.tables[n].rows)
                /\ common \cup added \subseteq Columns(live, n)
                /\ RowsOn(live, n, common) = RowsOn(db0, n, common)
                /\ \A k \in DOMAIN live.tables[n].rows :
                      \A c \in added : live.tables[n].rows[k][c] = Null

\* C6 (table convergence): after a successful migrate the live database has
\* the pristine's tables (sqlite_sequence aside), each with the pristine's
\* column list.
C6_TableConvergence ==
    Succeeded =>
        /\ DOMAIN live.tables \ {SQLITE_SEQUENCE} = DOMAIN pristine.tables \ {SQLITE_SEQUENCE}
        /\ \A n \in DOMAIN pristine.tables \ {SQLITE_SEQUENCE} :
              n \in DOMAIN live.tables => TableInfo(live, n) = TableInfo(pristine, n)

----------------------------------------------------------------------------
(* C7 - C10: indices, triggers, views, the return value *)

\* an object whose definition the pristine changes
Differs(kind, n) ==
    LET was == IF kind = "index" THEN db0.indices ELSE db0.triggers
        wanted == IF kind = "index" THEN pristine.indices ELSE pristine.triggers
    IN  n \in DOMAIN was /\ n \in DOMAIN wanted /\ was[n] # wanted[n]

\* C7 (index reconciliation): after a successful migrate the live indices are
\* the pristine's indices, each with the pristine's SQL; an index whose SQL
\* differed was created once, after it was dropped (by DROP INDEX or with the
\* rebuilt table it was on), and no index the pristine keeps unchanged on a
\* table that is not rebuilt was touched.
C7_IndexReconciliation ==
    Succeeded =>
        /\ live.indices = pristine.indices
        /\ \A n \in DOMAIN db0.indices :
              /\ Differs("index", n) =>
                    /\ Cardinality(Pos("CREATE", "index", n)) = 1
                    /\ \A j \in Pos("CREATE", "index", n) :
                          \E i \in Pos("DROP", "index", n)
                                    \cup Pos("DROP", "table", db0.indices[n].tbl) : i < j
              /\ Pos("DROP", "index", n) # {} =>
                    n \notin DOMAIN pristine.indices \/ Differs("index", n)

\* an index with a changed definition was dropped by DROP INDEX and created
\* again, and the call succeeded
C7_Witness ==
    /\ Succeeded
    /\ \E n \in DOMAIN db0.indices :
          /\ Differs("index", n)
          /\ Pos("DROP", "index", n) # {}
          /\ Pos("CREATE", "index", n) # {}
          /\ live.indices[n] = pristine.indices[n]

\* the triggers of the database the call began on that are attached to n
TriggersOn(db, n) == {g \in DOMAIN db.triggers : db.triggers[g].tbl = n}

\* C8 (triggers across a rebuild): after a successful migrate the live triggers
\* are the pristine's triggers and none was created twice; for every rebuilt
\* table, each trigger that was on it was dropped before the CREATE of the
\* new table and each pristine trigger on it was created after the rename.
C8_TriggersAcrossRebuild ==
    Succeeded =>
        /\ live.triggers = pristine.triggers
        /\ \A g \in DOMAIN pristine.triggers : Cardinality(Pos("CREATE", "trigger", g)) <= 1
        /\ \A n \in Rebuilt :
              /\ \A g \in TriggersOn(db0, n) :
                    \E i \in Pos("DROP", "trigger", g) :
                        \A c \in Pos("CREATE", "table", MigrationNew(n)) : i < c
              /\ \A g \in TriggersOn(pristine, n) :
                    /\ Pos("CREATE", "trigger", g) # {}
                    /\ \A j \in Pos("CREATE", "trigger", g) :
                          \A r \in Pos("RENAME", "table", MigrationNew(n)) : r < j

\* a table with a trigger before and after was rebuilt, and the call succeeded
C8_Witness ==
    /\ Succeeded
    /\ \E n \in Rebuilt : TriggersOn(db0, n) # {} /\ TriggersOn(pristine, n) # {}

\* C9 (view reconciliation): after a successful migrate the live views are the
\* pristine's views, each with the pristine's SQL, each created exactly once
\* by the call, and no other view is left, whether or not tables were rebuilt.
C9_ViewReconciliation ==
    Succeeded =>
        /\ live.views = pristine.views
        /\ \A v \in DOMAIN pristine.views : Cardinality(Pos("CREATE", "view", v)) = 1
        /\ \A v \in DOMAIN db0.views \ DOMAIN pristine.views : v \notin DOMAIN live.views

\* the table a view reads was rebuilt while the view existed before and after
C9_Witness ==
    /\ Succeeded
    /\ \E v \in DOMAIN db0.views \cap DOMAIN pristine.views :
          ViewReads(pristine.views[v]) \in Rebuilt

\* C10 (return value): migrate returns true exactly when the live database or
\* its foreign_keys setting differs from what it was before the call.
C10_ReturnValue ==
    Succeeded => ((result = "true") <=> (live # db0 \/ foreign_keys # fk0))

----------------------------------------------------------------------------
(* C11 - C14: what ensurePristine does with the script *)

\* C11 (empty schema): when a call with an empty or whitespace-only script is
\* through without an engine fault, the pristine database was never
\* populated, the call returned false, and the live database is as before.
C11_EmptySchema ==
    (pc = "done" /\ Len(Trim(schema)) = 0 /\ ~faulted)
        => /\ pristine = EmptyDb
           /\ result = "false"
           /\ live = db0

\* the script gets past the validator and the engine rejects one of its
\* statements
EngineRejects == Len(Trim(schema)) # 0 /\ ~Dangerous(schema) /\ ~RunStmts(EmptyDb, schema).ok

\* C12 (invalid schema): a call whose script the engine rejects on the pristine
\* database ends with the error "Invalid schema SQL: " followed by the
\* engine's message, with the write transaction never opened and no statement
\* executed on the live database.
C12_InvalidSchema ==
    (pc = "done" /\ EngineRejects)
        => /\ result = "error"
           /\ error = "Invalid schema SQL: " \o EngineMessage(FirstRejected(EmptyDb, schema))
           /\ txStatus = "none" /\ ~transaction /\ origForeignKeys = -1
           /\ log = << >>
           /\ live = db0 /\ foreign_keys = fk0

\* a script whose table the pristine database creates and whose misspelt
\* second statement the engine rejects, on a live database with foreign_keys ON
C12_Witness ==
    /\ pc = "done" /\ EngineRejects
    /\ FirstRejected(EmptyDb, schema).op = "CREATE TABEL"
    /\ DOMAIN pristine.tables = {"t"}
    /\ fk0 = 1
    /\ error = "Invalid schema SQL: SQLITE_ERROR: CREATE TABEL table u"

Banned(spellings) == \E i \in DOMAIN schema : schema[i].op \in spellings

\* C13 (banned statements): a call whose script holds ATTACH DATABASE or DETACH
\* DATABASE, in upper, lower or mixed case, ends with the error that names the
\* statement, with the pristine database still empty, the write transaction
\* never opened and no statement executed on the live database.
C13_BannedStatements ==
    (pc = "done" /\ Banned(AttachSpellings \cup DetachSpellings))
        => /\ result = "error"
           /\ error = "Schema contains potentially dangerous statement: "
                        \o (IF Banned(AttachSpellings) THEN "ATTACH DATABASE"
                                                       ELSE "DETACH DATABASE")
                        \o ". This is not allowed for security reasons."
           /\ pristine = EmptyDb
           /\ txStatus = "none" /\ log = << >>
           /\ live = db0 /\ foreign_keys = fk0

\* a lower-case detach after a table definition is refused by name
C13_Witness ==
    /\ pc = "done"
    /\ Len(schema) = 2 /\ schema[1].op = "CREATE" /\ schema[2].op = "detach database"
    /\ error = DangerousMessage("DETACH DATABASE")
    /\ pristine = EmptyDb

\* the script holds a pragma whose name is none of the five
OtherPragma ==
    \E i \in DOMAIN schema :
        Fold(schema[i].op) = "PRAGMA" /\ PragmaName(schema[i].name) \notin SAFE_PRAGMAS

\* C14 (schema pragma whitelist): a script with a pragma whose name is not
\* exactly foreign_keys, user_version, defer_foreign_keys, foreign_key_check or
\* table_info, and with no ATTACH or DETACH ahead of it in the validator's
\* order, gets no further than ensurePristine, which raises "unsafe PRAGMA".
C14_PragmaWhitelist ==
    (pc # "ensurePristine" /\ OtherPragma /\ ~Banned(AttachSpellings \cup DetachSpellings))
        => /\ pc = "done"
           /\ error = "Schema contains potentially dangerous statement: unsafe PRAGMA"
                        \o ". This is not allowed for security reasons."

----------------------------------------------------------------------------
(* C15, C16: foreign keys while the transaction is open *)

ForeignKeyCheckEntry == LogEntry(Stmt("PRAGMA", "pragma", "foreign_key_check", 0), "tx")

\* C15 (foreign-key check): when foreign_keys was ON at begin or is ON in the
\* pristine database, the call reaches commit only with PRAGMA foreign_key_check
\* as the last statement of the transaction and with no row returned; and a
\* check that returns rows ends the call with the foreign-key error and
\* nothing committed.
C15_ForeignKeyCheck ==
    /\ (pc = "commit" /\ (origForeignKeys = 1 \/ pristineForeignKeys = 1))
            => /\ log # << >> /\ log[Len(log)] = ForeignKeyCheckEntry
               /\ fkRows = 0
    /\ (fkRows > 0 /\ \E i \in DOMAIN log : log[i] = ForeignKeyCheckEntry)
            => /\ txStatus # "committed" /\ live = db0
               /\ (pc = "done" /\ ~faulted) => error = "ForeignKeyViolation"

\* the steps of performMigration, where plan and apply statements run
PlanApply ==
    {"performMigration", "createTables", "dropTables", "recreateTable", "indices",
     "triggers", "views", "userVersion", "foreignKeyCheck"}

Written(name) == Cardinality(Pos("PRAGMA", "pragma", name))

\* C16 (pragmas of the open transaction): at every step of performMigration,
\* with the write transaction open, foreign_keys is OFF on the live connection
\* and defer_foreign_keys is TRUE, and the history holds no write of either
\* pragma beyond those of begin.
C16_OpenTransactionPragmas ==
    (txStatus = "open" /\ pc \in PlanApply)
        => /\ foreign_keys = 0
           /\ defer_foreign_keys
           /\ Written("foreign_keys") = (IF origForeignKeys = 1 THEN 1 ELSE 0)
           /\ Written("defer_foreign_keys") = 1

----------------------------------------------------------------------------
(* C17 - C19: the order of the statements *)

\* positions in the history of the statements of the given kinds
OfKind(kinds) == {i \in DOMAIN log : log[i].kind \in kinds}

ViewDrops == {i \in OfKind({"view"}) : log[i].op = "DROP" /\ log[i].name \in DOMAIN db0.views}

ViewCreates == {i \in OfKind({"view"}) : log[i].op = "CREATE"}

\* C17 (view ordering): in every call, once a table statement (create, drop,
\* or a statement of a rebuild) has been executed every view the database
\* began with has been dropped, each such DROP VIEW comes before every table
\* statement, and every CREATE VIEW comes after every table, index and trigger
\* statement.
C17_ViewOrdering ==
    /\ OfKind({"table"}) # {} =>
            \A v \in DOMAIN db0.views : Pos("DROP", "view", v) # {}
    /\ \A i \in ViewDrops : \A j \in OfKind({"table"}) : i < j
    /\ \A i \in ViewCreates : \A j \in OfKind({"table", "index", "trigger"}) : j < i

\* a successful call that dropped a view, rebuilt the table under it with its
\* index and trigger, and created the view again
C17_Witness ==
    /\ Succeeded
    /\ ViewDrops # {} /\ ViewCreates # {}
    /\ Rebuilt # {}
    /\ OfKind({"index"}) # {} /\ OfKind({"trigger"}) # {}

CommitEntry == LogEntry(Stmt("COMMIT", "transaction", "", 0), "tx")

\* the phases of a migration, numbered as migrate runs them: 0 begin, 1 view
\* drops, 2 new tables, 3 removed tables, 4 rebuilds, 5 indices, 6 triggers,
\* 7 views, 8 user_version, 9 foreign_key_check, 10 commit, 11 foreign_keys
\* reconcile, 12 VACUUM.  PhasesOf(e) is the set of phases that issue the
\* statement e of the history of a call on db0 towards pristine.
PhasesOf(e) ==
    LET new == {MigrationNew(n) : n \in DOMAIN pristine.tables}
        rebuilt == {n \in DOMAIN pristine.tables : Pos("CREATE", "table", MigrationNew(n)) # {}}
    IN  CASE e.kind = "view" -> IF e.op = "DROP" THEN {1} ELSE {7}
          [] e.kind = "table" ->
                IF e.op = "CREATE" /\ e.name \notin new THEN {2}
                ELSE IF e.op = "DROP" /\ e.name \notin DOMAIN pristine.tables THEN {3}
                ELSE {4}
          [] e.kind = "index" ->
                (IF e.op = "CREATE" /\ pristine.indices[e.name].tbl \in rebuilt THEN {4} ELSE {})
                    \cup {5}
          [] e.kind = "trigger" ->
                (IF e.op = "CREATE" /\ pristine.triggers[e.name].tbl \in rebuilt THEN {4} ELSE {})
                    \cup (IF e.op = "DROP" /\ db0.triggers[e.name].tbl \in rebuilt THEN {4} ELSE {})
                    \cup {6}
          [] e.kind = "pragma" ->
                CASE e.name = "user_version" -> {8}
                  [] e.name = "foreign_key_check" -> {9}
                  [] e.name = "foreign_keys" /\ e.via = "db" -> {11}
                  [] OTHER -> {0}
          [] e.kind = "transaction" -> {10}
          [] e.kind = "database" -> {12}

Least(S) == CHOOSE p \in S : \A q \in S : p <= q

\* the history from position i on can be issued by phases in ascending order,
\* none of them below p
RECURSIVE InPhaseOrder(_, _)
InPhaseOrder(i, p) ==
    IF i > Len(log) THEN TRUE
    ELSE LET later == {q \in PhasesOf(log[i]) : q >= p}
         IN  later # {} /\ InPhaseOrder(i + 1, Least(later))

\* C18 (phase ordering): the statements of a successful call reached the live
\* database in the order view drops, new tables, removed tables, rebuilds,
\* indices, triggers, views, user_version, foreign_key_check, commit,
\* foreign_keys reconcile, VACUUM; all up to the commit went through the
\* transaction, and the foreign_keys reconcile and VACUUM went to the client
\* after the one commit.
C18_PhaseOrdering ==
    Succeeded =>
        /\ InPhaseOrder(1, 0)
        /\ Cardinality({i \in DOMAIN log : log[i] = CommitEntry}) = 1
        /\ \A i \in DOMAIN log :
              (log[i].via = "db") <=> (\E j \in 1..(i - 1) : log[j] = CommitEntry)

\* a successful call with a statement in each of the twelve phases
C18_Witness ==
    /\ Succeeded
    /\ \A p \in 1..12 : \E i \in DOMAIN log : p \in PhasesOf(log[i])
    /\ \E i, j \in OfKind({"index"}) : PhasesOf(log[i]) = {5} /\ 4 \in PhasesOf(log[j])

\* every position of I is ahead of every position of J
Ahead(I, J) == \A i \in I : \A j \in J : i < j

\* J holds a position only after I does
Follows(I, J) == (J # {} => I # {}) /\ Ahead(I, J)

\* the statements of the history that belong to the rebuild of table n
TriggerDropsOf(n) ==
    {i \in OfKind({"trigger"}) :
        /\ log[i].op = "DROP"
        /\ log[i].name \in DOMAIN db0.triggers
        /\ db0.triggers[log[i].name].tbl = n}

DependentCreatesOf(n) ==
    {i \in OfKind({"index"}) : log[i].op = "CREATE" /\ pristine.indices[log[i].name].tbl = n}
    \cup {i \in OfKind({"trigger"}) :
                log[i].op = "CREATE" /\ pristine.triggers[log[i].name].tbl = n}

\* C19 (rebuild ordering): for every table whose rebuild has started, at every
\* point of the call, the DROPs of the live triggers on it come first, then
\* one CREATE of <table>_migration_new, one INSERT into it, one DROP of the
\* old table, one RENAME, and after the RENAME every CREATE of a pristine index
\* or trigger on the table; the old table is dropped only after the INSERT.
C19_RebuildOrdering ==
    \A n \in DOMAIN pristine.tables :
        LET create == Pos("CREATE", "table", MigrationNew(n))
            insert == Pos("INSERT", "table", MigrationNew(n))
            drop == Pos("DROP", "table", n)
            rename == Pos("RENAME", "table", MigrationNew(n))
        IN  /\ \A S \in {create, insert, drop, rename} : Cardinality(S) <= 1
            /\ Follows(create, insert)
            /\ Follows(insert, drop)
            /\ Follows(drop, rename)
            /\ create # {} =>
                  /\ Ahead(TriggerDropsOf(n), create)
                  /\ Follows(rename, DependentCreatesOf(n))

\* a finished rebuild of a table that had a trigger and gets an index and a
\* trigger from the pristine database
C19_Witness ==
    /\ Succeeded
    /\ \E n \in Rebuilt :
          /\ TriggerDropsOf(n) # {}
          /\ \E i, j \in DependentCreatesOf(n) : log[i].kind = "index" /\ log[j].kind = "trigger"
          /\ db0.tables[n].rows # << >>

----------------------------------------------------------------------------
(* C20: user_version *)

UserVersionWrites == Pos("PRAGMA", "pragma", "user_version")

\* C20 (user_version): after a successful migrate the live user_version is the
\* pristine's; the call executed PRAGMA user_version once when the two values
\* differed and not at all when they were equal; and the step that executes
\* it adds one to the change counter, and nothing when it executes nothing.
C20_UserVersion ==
    /\ [](Succeeded =>
            /\ live.user_version = pristine.user_version
            /\ Cardinality(UserVersionWrites) =
                    (IF db0.user_version # pristine.user_version THEN 1 ELSE 0))
    /\ [][pc = "userVersion" =>
            nChanges' - nChanges = Len(log') - Len(log)]_vars

\* a successful call that moved user_version from 0 to 1
C20_Witness ==
    /\ Succeeded
    /\ db0.user_version = 0 /\ pristine.user_version = 1
    /\ live.user_version = 1
    /\ UserVersionWrites # {}

----------------------------------------------------------------------------
(* C21, C22: after the commit *)

ForeignKeysWrites == {i \in Pos("PRAGMA", "pragma", "foreign_keys") : log[i].via = "db"}

Commits == {i \in DOMAIN log : log[i] = CommitEntry}

\* C21 (foreign_keys after success): after a successful migrate the live
\* connection's foreign_keys is the pristine's, whether begin read it ON or
\* OFF; the client executed PRAGMA foreign_keys at most once, after the commit;
\* and afterCommit executes it exactly when the live value differs from the
\* pristine's at that point.
C21_ForeignKeysAfterSuccess ==
    /\ [](Succeeded =>
            /\ foreign_keys = pristineForeignKeys
            /\ Cardinality(ForeignKeysWrites) <= 1
            /\ Ahead(Commits, ForeignKeysWrites))
    /\ [][(pc = "afterCommit" /\ pc' # "done") =>
            /\ (log' # log) <=> (foreign_keys # pristineForeignKeys)
            /\ foreign_keys' = pristineForeignKeys]_vars

\* foreign_keys was ON at begin and stayed ON through the transaction, the
\* pristine's is OFF, and the successful call switched it OFF after the commit
C21_Witness ==
    /\ Succeeded
    /\ origForeignKeys = 1 /\ fk0 = 1 /\ pristineForeignKeys = 0
    /\ foreign_keys = 0
    /\ ForeignKeysWrites # {}
    /\ Cardinality(Pos("PRAGMA", "pragma", "foreign_keys")) = 2

Vacuums == {i \in DOMAIN log : log[i].op = "VACUUM"}

\* C22 (VACUUM): VACUUM is executed at most once, on the client, after the
\* commit and with the transaction closed; a call that raised an error did
\* not execute it; and a successful call executed it exactly when its change
\* counter is above zero, which is exactly when it returns true.
C22_Vacuum ==
    /\ Cardinality(Vacuums) <= 1
    /\ \A i \in Vacuums :
          /\ log[i].via = "db"
          /\ txStatus = "committed" /\ ~transaction
          /\ \E j \in Commits : j < i
    /\ Raised => Vacuums = {}
    /\ Succeeded =>
          /\ (Vacuums # {}) <=> (nChanges > 0)
          /\ (Vacuums # {}) <=> (result = "true")

\* a successful call that changed a table and ran VACUUM after its commit
C22_Witness ==
    /\ Succeeded /\ result = "true"
    /\ Vacuums # {}
    /\ OfKind({"table"}) # {}

----------------------------------------------------------------------------
(* C23: two migrations side by side *)

\* migrator A of the pair, running or waiting
MigratorA == IF peer.who = "A" THEN Running ELSE peer.saved

MigratorB == IF peer.who = "B" THEN Running ELSE peer.saved

\* what a call leaves behind: what it returned or raised, its database and
\* connection, the statements its transaction executed and the fields of its
\* Migrator
Outcome(m) ==
    [result |-> m.result, error |-> m.error, live |-> m.live,
     foreign_keys |-> m.foreign_keys,
     log |-> SelectSeq(m.log, LAMBDA e : e.via = "tx"), pristine |-> m.pristine,
     transaction |-> m.transaction, txStatus |-> m.txStatus,
     origForeignKeys |-> m.origForeignKeys, nChanges |-> m.nChanges]

\* C23 (independent migrations): when migrator A has finished beside migrator
\* B, with their steps interleaved in any way and no I/O fault in A, it has
\* returned what it returned alone on the same input, left its database and
\* connection as it left them alone, executed the same statements, and its
\* pristine database, transaction, original foreign_keys and change counter
\* are what they were alone.
C23_IndependentMigrations ==
    (/\ peer.stage = "together"
     /\ MigratorA.pc = "done"
     /\ ~MigratorA.faulted /\ ~peer.alone.faulted)
        => Outcome(MigratorA) = Outcome(peer.alone)

\* both migrators are through, each was in flight while the other took steps,
\* A rebuilt its table and B was refused
C23_Witness ==
    /\ peer.stage = "together"
    /\ peer.interleaved
    /\ MigratorA.pc = "done" /\ MigratorB.pc = "done"
    /\ ~MigratorA.faulted /\ ~peer.alone.faulted
    /\ MigratorA.result = "true" /\ MigratorA.nChanges > 0
    /\ MigratorB.result = "error" /\ MigratorB.error = "RefuseTables"

----------------------------------------------------------------------------
(* C24: the one write transaction *)

\* a statement that changes the schema, the rows or user_version
Mutating(e) ==
    \/ e.kind \in {"table", "index", "trigger", "view"}
    \/ e.kind = "pragma" /\ e.name = "user_version"

\* C24 (single write transaction): within a call the transaction is opened
\* once and ends once, committed or rolled back; every statement that changes
\* the schema, the rows or user_version is executed on it while it is open;
\* the content seen inside the transaction changes only while it is open, and
\* the committed content changes only by its commit.
C24_SingleWriteTransaction ==
    /\ [](\A i \in DOMAIN log : Mutating(log[i]) =>
                /\ log[i].via = "tx"
                /\ \A j \in Commits : i < j)
    /\ [][call' = call =>
            /\ txStatus' # txStatus =>
                    << txStatus, txStatus' >> \in
                        {<< "none", "open" >>, << "open", "committed" >>,
                         << "open", "rolledback" >>}
            /\ (\E i \in DOMAIN log' \ DOMAIN log : Mutating(log'[i])) =>
                    transaction /\ txStatus = "open" /\ txStatus' = "open"
            /\ txdb' # txdb => txStatus = "open"
            /\ live' # live => txStatus = "open" /\ txStatus' = "committed" /\ live' = txdb]_vars

\* a committed call whose transaction executed statements of every mutating
\* kind
C24_Witness ==
    /\ Succeeded /\ txStatus = "committed"
    /\ \A k \in {"table", "index", "trigger", "view"} : OfKind({k}) # {}
    /\ UserVersionWrites # {}
    /\ live # db0

----------------------------------------------------------------------------
(* C25: what a call leaves open *)

\* C25 (resource cleanup): however a call ends, its pristine database has
\* been closed, and a write transaction that was opened has been committed or
\* rolled back and then closed.
C25_ResourceCleanup ==
    pc = "done" =>
        /\ pristineClosed
        /\ txStatus # "none" => txStatus \in {"committed", "rolledback"} /\ txClosed

----------------------------------------------------------------------------
(* Identifier quoting *)

\* a statement whose text the migrator puts together: the drops, the data
\* copy and the rename of a rebuild, and the CREATE of <table>_migration_new
Generated(e) ==
    \/ e.op \in {"DROP", "INSERT", "RENAME"}
    \/ /\ e.op = "CREATE"
       /\ e.kind = "table"
       /\ \E n \in DOMAIN db0.tables : e.name = MigrationNew(n)

\* text is what escapeIdentifier returns for some name: double quotes around
\* it, and every double quote inside written twice
Escaped(text) ==
    /\ Len(text) >= 2
    /\ text = escapeIdentifier(HalveQuotes(SubSeq(text, 2, Len(text) - 1)))

\* C26 (identifier quoting): every name in a statement the migrator
\* generates (DROP VIEW/TABLE/INDEX/TRIGGER, the table and column names of
\* INSERT ... SELECT, ALTER TABLE RENAME, and the CREATE of
\* <table>_migration_new) is written as escapeIdentifier writes it: wrapped in
\* double quotes, every double quote inside it doubled.
C26_IdentifierQuoting ==
    \A i \in DOMAIN log :
        Generated(log[i]) => \A j \in DOMAIN log[i].sql : Escaped(log[i].sql[j])

----------------------------------------------------------------------------
(* Names with special characters *)

SpecialCharacters == {Quote, "-", "@", "#", " "}

HasSpecialCharacter(name) == Range(Spell(name)) \cap SpecialCharacters # {}

\* a table of both databases whose definitions differ once normalised, which
\* is what makes the migrator rebuild it
ToRebuild(n) ==
    /\ n \in DOMAIN db0.tables
    /\ n \in DOMAIN pristine.tables
    /\ normaliseSql(Render(db0.tables[n].sql)) # normaliseSql(Render(pristine.tables[n].sql))

\* the name of the table, or of one of its columns on either side, has a
\* special character
SpeciallyNamed(n) ==
    \E name \in {n} \cup Range(db0.tables[n].sql.cols) \cup Range(pristine.tables[n].sql.cols) :
        HasSpecialCharacter(name)

\* C27 (special characters): when a table to rebuild, or one of its columns,
\* has a double quote, '-', '@', '#' or a space in its name, and the call
\* removes nothing and meets no fault, migrate succeeds and the rows of the
\* table have the values they had on the columns common to both definitions.
C27_SpecialCharacters ==
    (pc = "done" /\ ~faulted) =>
        \A n \in DOMAIN db0.tables :
            (/\ ToRebuild(n)
             /\ SpeciallyNamed(n)
             /\ Range(db0.tables[n].sql.cols) \subseteq Range(pristine.tables[n].sql.cols))
            => LET common == Columns(db0, n) \cap Columns(pristine, n)
               IN  /\ result # "error"
                   /\ n \in DOMAIN live.tables
                   /\ common \subseteq Columns(live, n)
                   /\ RowsOn(live, n, common) = RowsOn(db0, n, common)

----------------------------------------------------------------------------
(* Normalised comparison *)

\* the definitions of one kind in a catalog
OfType(db, type) ==
    CASE type = "table" -> [n \in DOMAIN db.tables |-> db.tables[n].sql]
      [] type = "index" -> db.indices
      [] type = "trigger" -> db.triggers
      [] type = "view" -> db.views

\* the object is in the live database and in the pristine, and normaliseSql
\* takes its two definitions to the same text
SameNormalised(type, n) ==
    /\ n \in DOMAIN OfType(db0, type)
    /\ n \in DOMAIN OfType(pristine, type)
    /\ normaliseSql(Render(OfType(db0, type)[n]))
         = normaliseSql(Render(OfType(pristine, type)[n]))

\* C28 (normalization equivalence): an object of the live database and of
\* the pristine whose two definitions normalise to the same text is not
\* treated as modified.  A table is not rebuilt, dropped or created; an index
\* or a trigger of a table that is not rebuilt is not dropped or created; a
\* view is dropped and created at most once, which is what every view goes
\* through whatever its definition.
C28_NormalizationEquivalence ==
    /\ \A n \in DOMAIN db0.tables :
          SameNormalised("table", n) =>
              /\ Pos("CREATE", "table", MigrationNew(n)) = {}
              /\ Pos("DROP", "table", n) = {}
              /\ Pos("CREATE", "table", n) = {}
    /\ \A type \in {"index", "trigger"} :
          \A n \in DOMAIN OfType(db0, type) :
              (SameNormalised(type, n) /\ ~ToRebuild(OfType(db0, type)[n].tbl))
                  => Pos("DROP", type, n) = {} /\ Pos("CREATE", type, n) = {}
    /\ \A n \in DOMAIN db0.views :
          SameNormalised("view", n)
              => /\ Cardinality(Pos("DROP", "view", n)) <= 1
                 /\ Cardinality(Pos("CREATE", "view", n)) <= 1

----------------------------------------------------------------------------
(* The normaliser *)

\* a word that starts with a digit
DigitFirst(tok) == tok \in {"1a"}

\* an identifier of the form [A-Za-z_][A-Za-z0-9_]*
PlainIdentifier(name) ==
    /\ Len(name) >= 1
    /\ \A i \in DOMAIN name : IsWord(name[i])
    /\ ~DigitFirst(name[1])

\* the text with the double quotes taken off the quoted identifiers that are
\* plain, and every other quoted identifier as it was; a quoted identifier
\* runs from its opening double quote to the closing one
RECURSIVE StripPlainIdentifiers(_)
StripPlainIdentifiers(sql) ==
    IF sql = << >> THEN sql
    ELSE IF Head(sql) # Quote THEN << Head(sql) >> \o StripPlainIdentifiers(Tail(sql))
    ELSE LET end == ClosingQuote(Tail(sql))
             inside == SubSeq(sql, 2, end)
         IN  IF end = 0 THEN sql
             ELSE (IF PlainIdentifier(inside) THEN inside ELSE SubSeq(sql, 1, end + 1))
                    \o StripPlainIdentifiers(From(sql, end + 2))

\* C29 (normalizer): normaliseSql does five things to its argument, in this
\* order: it deletes the -- comments through the newline that ends them, it
\* makes one space of every run of whitespace, it deletes the spaces around
\* ( ) and , it takes the double quotes off the quoted identifiers of the form
\* [A-Za-z_][A-Za-z0-9_]* and off no other (one with a space or punctuation
\* in it keeps its quotes), and it trims the text.
C29_Normalizer ==
    /\ [][/\ norm.step = "comments" => norm'.sql = RemoveComments(norm.sql)
          /\ norm.step = "whitespace" => norm'.sql = CollapseWhitespace(norm.sql)
          /\ norm.step = "delimiters" => norm'.sql = TightenDelimiters(norm.sql)
          /\ norm.step = "quotes" => norm'.sql = StripPlainIdentifiers(norm.sql)
          /\ norm.step = "trim" => norm'.sql = TrimText(norm.sql)
          /\ norm.step # "returned" => << norm.step, norm'.step >> \in
                {<< "comments", "whitespace" >>, << "whitespace", "delimiters" >>,
                 << "delimiters", "quotes" >>, << "quotes", "trim" >>,
                 << "trim", "returned" >>}]_vars
    /\ [](norm.step = "returned" => norm.sql = normaliseSql(norm.input))

----------------------------------------------------------------------------
(* The deletion guard and the statements ahead of it *)

\* the migrator has refused to drop a table or a column
Refused == error \in {"RefuseTables", "RefuseColumns"}

\* C30 (guard before mutation): when allowDeletions is false and the script
\* omits a table, or a column of a modified table, the migrator refuses
\* before the live database has executed any statement that changes it: no
\* view drop, no table create or drop, no trigger drop, no CREATE of a
\* <table>_migration_new, no rebuild of another table.
C30_GuardBeforeMutation ==
    (Refused /\ ~allowDeletions) => \A i \in DOMAIN log : ~Mutating(log[i])

----------------------------------------------------------------------------
(* A rebuilt table that keeps no column *)

\* the live and the pristine definition of table n share no column
NoCommonColumn(n) ==
    /\ n \in DOMAIN db0.tables
    /\ n \in DOMAIN pristine.tables
    /\ Columns(db0, n) \cap Columns(pristine, n) = {}

\* C31 (empty common column set): when deletions are allowed and the call,
\* undisturbed by a fault, has created <table>_migration_new for a table
\* whose live and pristine definitions have no column in common, no INSERT
\* into the new table is executed, the rebuild goes on to the rename, and
\* once migrate has returned the table is in the live database without rows.
C31_EmptyCommonColumns ==
    (pc = "done" /\ ~faulted /\ allowDeletions) =>
        \A n \in DOMAIN db0.tables :
            (NoCommonColumn(n) /\ Pos("CREATE", "table", MigrationNew(n)) # {})
            => /\ Pos("INSERT", "table", MigrationNew(n)) = {}
               /\ Pos("RENAME", "table", MigrationNew(n)) # {}
               /\ Succeeded => /\ n \in DOMAIN live.tables
                               /\ live.tables[n].rows = << >>

----------------------------------------------------------------------------
(* foreign_keys after a failure *)

----------------------------------------------------------------------------
(* The change counter *)

\* the statements of plan and apply, all of them sent through logExecute
LogExecuted == {i \in DOMAIN log : log[i].via = "tx" /\ Mutating(log[i])}

\* C33 (change counter): when migrate has returned, the change counter is the
\* number of statements logExecute executed during plan and apply, plus one
\* when PRAGMA foreign_keys was executed after the commit and the pristine's
\* value is not the one begin captured; begin hands over a counter of zero,
\* whether or not it sent PRAGMA foreign_keys = OFF; and while the
\* transaction is open every step counts exactly the schema-changing
\* statements it executes.
C33_ChangeCounter ==
    /\ [](Succeeded =>
            nChanges = Cardinality(LogExecuted)
                        + (IF ForeignKeysWrites # {} /\ pristineForeignKeys # origForeignKeys
                           THEN 1 ELSE 0))
    /\ [](pc = "performMigration" => nChanges = 0)
    /\ [][(call' = call /\ pc \in PlanApply) =>
            nChanges' - nChanges
                = Cardinality({i \in DOMAIN log' \ DOMAIN log : Mutating(log'[i])})]_vars

\* a successful call that changed the schema, began with foreign_keys ON and
\* put it back ON after the commit, which the counter does not count
C33_Witness ==
    /\ Succeeded
    /\ origForeignKeys = 1 /\ pristineForeignKeys = 1
    /\ ForeignKeysWrites # {}
    /\ Written("foreign_keys") = 2
    /\ LogExecuted # {}
    /\ nChanges = Cardinality(LogExecuted)

----------------------------------------------------------------------------
(* The error path *)

ForeignKeysOnEntry == LogEntry(Stmt("PRAGMA", "pragma", "foreign_keys", 1), "db")

----------------------------------------------------------------------------
(* The rename of the table inside its definition *)

\* table n and its pristine columns are named with word characters only
PlainlyNamed(n) ==
    /\ WordChars(n)
    /\ \A c \in Range(pristine.tables[n].sql.cols) : WordChars(c)

\* C35 (table-name rewrite): while <table>_migration_new exists inside the
\* transaction, it has exactly the columns of the pristine table, under the
\* pristine names and in the pristine order, also when a column is spelled
\* like the table.
C35_TableNameRewrite ==
    \A n \in DOMAIN pristine.tables :
        (PlainlyNamed(n) /\ MigrationNew(n) \in DOMAIN txdb.tables)
            => TableInfo(txdb, MigrationNew(n)) = TableInfo(pristine, n)

----------------------------------------------------------------------------
(* What a CREATE statement finds in the catalog *)

\* the statements the step the call is at sends to the transaction, in order,
\* as long as the engine executes them
Issued ==
    CASE pc = "performMigration" -> DropViewStmts
      [] pc = "createTables" ->
            IF removedTables # {} /\ ~allowDeletions THEN << >> ELSE CreateTableStmts
      [] pc = "dropTables" -> DropTableStmts
      [] pc = "recreateTable" ->
            IF removedColumns(Head(todo)) # {} /\ ~allowDeletions
            THEN RecreateHead(Head(todo))
            ELSE RecreateHead(Head(todo)) \o RecreateTail(Head(todo))
      [] pc = "indices" -> IndexStmts
      [] pc = "triggers" -> TriggerStmts
      [] pc = "views" -> ViewStmts
      [] OTHER -> << >>

\* the catalog the i-th statement of the step is executed on: the statements
\* before it have been executed
Reaches(i) == RunStmts(txdb, SubSeq(Issued, 1, i - 1))

\* the catalog has an object of the name and the namespace of the definition
Exists(db, sql) ==
    CASE sql.kind = "trigger" -> sql.name \in DOMAIN db.triggers
      [] sql.kind \in {"table", "index", "view"} -> sql.name \in Names(db)
      [] OTHER -> FALSE

\* C36 (no CREATE on an existing name): every CREATE a step of
\* performMigration sends names an object that is not in the catalog of the
\* transaction when the statement is executed; this includes an index or
\* trigger that the script attaches to another table than the live database
\* does.  It is stated for tables named with word characters only.
C36_NoCreateOnExistingName ==
    (\A n \in DOMAIN db0.tables \cup DOMAIN pristine.tables : WordChars(n)) =>
        \A i \in DOMAIN Issued :
            (Issued[i].op = "CREATE" /\ Reaches(i).ok)
                => ~Exists(Reaches(i).db, Issued[i].arg)

----------------------------------------------------------------------------
(* What a CREATE INDEX or CREATE TRIGGER is attached to *)

\* the catalog has what the index or trigger is attached to: a table, or for
\* a trigger a table or a view
HasTarget(db, sql) ==
    \/ sql.tbl \in DOMAIN db.tables
    \/ sql.kind = "trigger" /\ sql.tbl \in DOMAIN db.views

\* C37 (dependents after their target): when a step of performMigration
\* sends a CREATE INDEX or CREATE TRIGGER of the pristine database, the table
\* the index is on, or the table or view the trigger is on, is in the catalog
\* of the transaction at that moment.
C37_DependentsAfterTarget ==
    \A i \in DOMAIN Issued :
        (/\ Issued[i].op = "CREATE"
         /\ Issued[i].kind \in {"index", "trigger"}
         /\ Reaches(i).ok)
            => HasTarget(Reaches(i).db, Issued[i].arg)

----------------------------------------------------------------------------
(* The temporary table of a rebuild *)

\* the names the migrator gives the tables it builds
TemporaryNames == {MigrationNew(n) : n \in DOMAIN db0.tables \cup DOMAIN pristine.tables}

\* C38 (no leftover temporary table): the committed content of the live
\* database never has a <table>_migration_new, during the call or once
\* migrate has returned or raised, nor any table that neither the database
\* the call began on nor the script has; a <table>_migration_new is in the
\* catalog only inside the open transaction, after its CREATE and before its
\* RENAME.
C38_NoLeftoverTemporaryTable ==
    /\ DOMAIN live.tables \cap TemporaryNames = {}
    /\ DOMAIN live.tables \subseteq DOMAIN db0.tables \cup DOMAIN pristine.tables
    /\ \A new \in DOMAIN txdb.tables \cap TemporaryNames :
            /\ txStatus = "open"
            /\ Pos("CREATE", "table", new) # {}
            /\ \A i \in Pos("RENAME", "table", new) :
                    \E j \in Pos("CREATE", "table", new) : i < j

\* a call that created and filled a temporary table, failed before the
\* rename and has raised
C38_Witness ==
    /\ Raised
    /\ \E new \in TemporaryNames :
            /\ Pos("CREATE", "table", new) # {}
            /\ Pos("INSERT", "table", new) # {}
            /\ Pos("RENAME", "table", new) = {}
    /\ DOMAIN live.tables \cap TemporaryNames = {}

----------------------------------------------------------------------------
(* The normaliser applied twice *)

\* C39 (normaliser idempotence): normaliseSql returns what it is given when
\* it is given a text that normaliseSql returned.
C39_NormalizerIdempotence ==
    (norm.step = "returned" /\ norm.pass = 2) => norm.sql = norm.input

----------------------------------------------------------------------------
(* The handle of each read *)

Read(sql, via) == [sql |-> sql, via |-> via]

\* the statements that only read and that the step at pc sends to the live
\* database, each with the handle it is sent on: "tx" for this.transaction
\* (txExecute, or an executor argument that is this.transaction), "db" for
\* the client this.db.  Reads of the pristine database are not listed
Reads ==
    CASE pc = "begin" -> {Read("PRAGMA foreign_keys", "tx")}
      [] pc = "performMigration" ->
            {Read("SELECT name, sql FROM sqlite_master", "tx")}
      [] pc = "recreateTable" ->
            {Read("SELECT type, name, sql FROM sqlite_master", "tx"),
             Read("PRAGMA table_info", "tx")}
      [] pc \in {"indices", "triggers", "views"} ->
            {Read("SELECT name, sql FROM sqlite_master", "tx")}
      [] pc = "userVersion" -> {Read("PRAGMA user_version", "db")}
      [] pc = "foreignKeyCheck" ->
            IF pristineForeignKeys # 0
            THEN {Read("PRAGMA foreign_key_check", "tx")}
            ELSE {}
      [] pc = "afterCommit" -> {Read("PRAGMA foreign_keys", "db")}
      [] OTHER -> {}

\* C40 (no statement beside the open transaction): while the write
\* transaction is open, every statement the call has executed on the live
\* database since it began, and every read the step at hand sends to it, is
\* sent on the transaction and none on the client.
C40_NoBypass ==
    (txStatus = "open" /\ pc \in PlanApply) =>
        /\ \A i \in DOMAIN log : log[i].via = "tx"
        /\ \A r \in Reads : r.via = "tx"

====
